---- MODULE Spec2Model ----
(***************************************************************************)
(* The actor pipeline of detsys-ids-client: Recorder callers, the          *)
(* Collator, the ConfigurationProxy (incoming worker and check-in worker), *)
(* the Submitter and Worker::wait, with tokio's mpsc, oneshot and          *)
(* broadcast channels between them.                                        *)
(***************************************************************************)
EXTENDS Integers, Sequences, FiniteSets, TLC

\* ------------------------------------------------------------------ bounds
\* Operations the callers start in one run.
MaxOps == 2
\* Operations the callers start in one run of the pipeline with full channels.
MaxPipelineOps == 4
\* Modelled capacity of every mpsc channel (1000 / 100 in the program).
ChanCap == 2
\* Ticks of the ConfigurationProxy's two-hour refresh interval in one run.
MaxRefreshTicks == 2
\* Ticks of the Submitter's 30-second interval in one run.
MaxFlushTicks == 1

\* ------------------------------------------------------------- value sets
Callers == {"c1", "c2"}
InitCaller == "c1"
DistinctIds == {"d1", "d2"}
FlagKeys == {"its-true"}
NoneId == "none"
Dropped == "dropped"
ProxyTx == "proxy"

\* ServerOptions::default() has zstd = true (compression_set.rs).
DefaultServerOptions == [zstd |-> TRUE]

\* The check-in documents the transport may serve.
CheckinA == [server_options |-> DefaultServerOptions,
             options |-> [k \in {"its-true"} |-> "true"]]
CheckinB == [server_options |-> DefaultServerOptions,
             options |-> [k \in {} |-> "true"]]
Checkins == {CheckinA, CheckinB}
NoCheckin == [none |-> TRUE]

\* FeatureFacts::default(): the empty map.
DefaultFeatureFacts == [present |-> FALSE, active |-> {}, feature |-> [k \in {} |-> "true"]]

\* Checkin::as_feature_facts: $active_feature_flags and one $feature/<name> per flag.
as_feature_facts(c) ==
    [present |-> TRUE, active |-> DOMAIN c.options, feature |-> c.options]

\* Map::default(), what trigger_configuration_refresh uses without a reply.
DefaultProps == [present |-> FALSE, distinct_id |-> NoneId, anon |-> NoneId,
                 groups |-> [k \in {} |-> "m"]]

\* An order of the algorithms that tries identity first.
into_iter_identity_first(set) == <<"identity">> \o (IF set.zstd THEN <<"zstd">> ELSE <<>>)

\* A delete that removes nothing.
delete_nothing(set, algo) == set

\* CompressionSet::into_iter: zstd if it is set, identity always and last.
into_iter(set) == (IF set.zstd THEN <<"zstd">> ELSE <<>>) \o <<"identity">>

\* CompressionSet::delete: identity cannot be removed.
delete(set, algo) == IF algo = "zstd" THEN [set EXCEPT !.zstd = FALSE] ELSE set

\* The two users of the SrvHttp transport: Submitter (submit) and
\* ConfigurationProxy (checkin).
Requests == {"submit", "checkin"}

\* What one send of perform_request can meet: a response with a status, or
\* an error of the send itself.
Answers == {"200", "415", "500", "error"}

\* No perform_request is running.
IdleRequest == [pc |-> "idle", algos |-> <<>>, attempts |-> <<>>, result |-> "none"]

\* The check-in documents an HTTP server may serve: those above, and one
\* whose server_options do not list zstd.
CheckinC == [server_options |-> [zstd |-> FALSE],
             options |-> [k \in {} |-> "true"]]
HttpCheckins == Checkins \cup {CheckinC}

\* The location of the JsonFile storage holds no file.
NoFile == [exists |-> FALSE]

\* The location holds a file that is not a WrappedStorage document.
Unparsable == [exists |-> TRUE, notes |-> "not json"]

\* No store has succeeded yet.
NoProps == [none |-> TRUE]

\* No load has been made yet.
NotLoaded == [kind |-> "none"]

\* The StoredProperties handed to store: identifiers, groups and check-in.
StoredPropertiesSet ==
    [anonymous_distinct_id : {"a1", "a2"},
     distinct_id : {NoneId, "d1"},
     device_id : {"DIDS-DEV-0"},
     groups : {[k \in {} |-> "m"], [k \in {"g"} |-> "m"]},
     checkin : HttpCheckins]

\* Serialize for Checkin: server_options is marked skip_serializing.
SerializeCheckin(c) == [options |-> c.options]

\* Deserialize for Checkin: a missing server_options is ServerOptions::default().
DeserializeCheckin(j) ==
    [server_options |-> IF "server_options" \in DOMAIN j THEN j.server_options
                        ELSE DefaultServerOptions,
     options |-> j.options]

\* serde_json::to_string_pretty(&WrappedStorage { notes, body }).
to_string_pretty(props) ==
    [exists |-> TRUE, notes |-> "NOTES",
     body |-> [anonymous_distinct_id |-> props.anonymous_distinct_id,
               distinct_id |-> props.distinct_id,
               device_id |-> props.device_id,
               groups |-> props.groups,
               checkin |-> SerializeCheckin(props.checkin)]]

\* serde_json::from_slice::<WrappedStorage>(&contents), then .body.
from_slice(contents) ==
    [anonymous_distinct_id |-> contents.body.anonymous_distinct_id,
     distinct_id |-> contents.body.distinct_id,
     device_id |-> contents.body.device_id,
     groups |-> contents.body.groups,
     checkin |-> DeserializeCheckin(contents.body.checkin)]

\* The caller is in no identify, alias, reset or add_group.
NoCall == [op |-> "none", arg |-> "none", sent |-> 0]

\* The caller is not in in_configuration_txn.
NoTxn == [state |-> "none", inClosure |-> 0, afterClosure |-> 0]

\* One-shot reply slots.
NoReply == [kind |-> "none"]
ClosedReply == [kind |-> "closed"]
ValReply(v) == [kind |-> "val", val |-> v]

VARIABLES
    cpc,            \* caller -> position in its current Recorder call
    cdata,          \* caller -> data of the current call (flag key)
    creply,         \* caller -> the one-shot receiver it awaits
    csub,           \* caller -> broadcast receiver kept from subscribe_to_feature_changes
    wsub,           \* caller -> broadcast receiver local to wait_for_checkin
    cres,           \* caller -> result of its last completed call
    built,          \* Worker::new has returned
    opsLeft,        \* operations the callers may still start
    collatorQ,      \* Recorder -> Collator channel
    collatorStatus, \* "running" | "ok" | "err"
    col,            \* the Collator's fields
    stored,         \* what Storage holds
    nextUuid,       \* source of fresh time-ordered uuids
    proxyQ,         \* Recorder -> ConfigurationProxy channel
    proxyStatus,    \* "running" | "ok" | "err"
    checkin,        \* ConfigurationProxy.checkin
    checkinQ,       \* incoming worker -> check-in worker channel
    cwPc,           \* check-in worker: "idle" | "wait_props" | "in_transport"
    cwJob,          \* the refresh the check-in worker is running
    proxyReply,     \* the one-shot receiver check_in_now awaits
    refreshTicks,   \* ticks of the refresh interval so far
    submitQ,        \* Collator -> Submitter channel
    subPc,          \* Submitter: "top" | "select" | "done"
    events,         \* Submitter.events
    flushTicks,     \* ticks of the flush interval so far
    waitPc,         \* Worker::wait: which task it is joining
    nextId,         \* ids of the event-producing calls
    enqueued,       \* ids of the signals accepted by the Collator's channel
    offered,        \* ids of the events passed to transport.submit
    submitFailed,   \* some transport.submit returned an error
    submitted,      \* ids of the events of the batches transport.submit accepted
    cancelled,      \* some caller has dropped a call while it was suspended
    proxyErr,       \* the call whose failed reply ended ConfigurationProxy::execute
    idPairs,        \* <<distinct_id, $anon_distinct_id>> of the events built under an explicit id
    answeredInFlight, \* the incoming worker has answered a request while transport.checkin was pending
    lastFresh,      \* what transport.checkin returned to the last refresh
    server_options, \* SrvHttpTransport.server_options, shared by its clones
    reqs,           \* the perform_request of each client of the transport
    jsonFile,       \* what the location of the JsonFile storage holds
    storedProps,    \* the StoredProperties of the last store that succeeded
    loadedProps,    \* the result of the last JsonFile::load
    txn,            \* caller -> its in_configuration_txn and the CheckInNow sent in it
    storeFails,     \* the Collator's storage is in a condition in which store returns Err
    inCall          \* caller -> the identity call it is in and the CheckInNow that call has sent

callerVars == <<cpc, cdata, creply, csub, wsub, cres, built, opsLeft>>
collatorVars == <<collatorQ, collatorStatus, col, stored, nextUuid>>
proxyVars == <<proxyQ, proxyStatus, checkin, checkinQ, cwPc, cwJob, proxyReply,
               refreshTicks>>
submitterVars == <<submitQ, subPc, events, flushTicks>>
ghostVars == <<nextId, enqueued, offered, submitFailed, submitted, cancelled, proxyErr, lastFresh,
              idPairs, answeredInFlight>>
httpVars == <<server_options, reqs>>
storageVars == <<jsonFile, storedProps, loadedProps>>
vars == <<callerVars, collatorVars, proxyVars, submitterVars, waitPc, ghostVars, httpVars,
         storageVars, txn, storeFails, inCall>>

\* ------------------------------------------------------------ identifiers
\* uuid::Uuid::now_v7().to_string(): a value never produced before.
FreshUuid(n) == ToString(n)

\* The anonymous ids the builder, the storage and the correlation data may
\* supply to Collator::new: none, or any string, the empty one included.
AnonInputs == {NoneId, "", "a"}

\* Collator::new: the anonymous id is the builder's, else the stored one, else
\* the correlation's, else a fresh uuid; no distinct_id, device_id or
\* session_id is supplied, no facts and no groups.
Collator_new(builder, storedIdent, correlation) ==
    [distinct_id |-> NoneId,
     anon_distinct_id |-> IF builder # NoneId THEN builder
                          ELSE IF storedIdent # NoneId THEN storedIdent
                          ELSE IF correlation # NoneId THEN correlation
                          ELSE FreshUuid(0),
     device_id |-> "DIDS-DEV-0", session_id |-> "s0",
     facts |-> [k \in {} |-> "v"], featurefacts |-> DefaultFeatureFacts,
     groups |-> [k \in {} |-> "m"]]

\* A distinct_id that ignores the identified id.
distinct_id_anonymous(c) == c.anon_distinct_id

\* Collator::distinct_id
distinct_id(c) == IF c.distinct_id # NoneId THEN c.distinct_id ELSE c.anon_distinct_id

\* An event built without the Collator's facts.
msg_to_event_without_facts(c, src, name, properties) ==
    [src |-> src, name |-> name, distinct_id |-> distinct_id(c),
     anon_distinct_id |-> c.anon_distinct_id, device_id |-> c.device_id,
     session_id |-> c.session_id, facts |-> [k \in {} |-> "v"],
     featurefacts |-> c.featurefacts, groups |-> c.groups,
     properties |-> properties]

\* Collator::msg_to_event
msg_to_event(c, src, name, properties) ==
    [src |-> src, name |-> name, distinct_id |-> distinct_id(c),
     anon_distinct_id |-> c.anon_distinct_id, device_id |-> c.device_id,
     session_id |-> c.session_id, facts |-> c.facts,
     featurefacts |-> c.featurefacts, groups |-> c.groups,
     properties |-> properties]

\* StoredProperties built without the groups.
StoredOfWithoutGroups(c) ==
    [distinct_id |-> c.distinct_id, anonymous_distinct_id |-> c.anon_distinct_id,
     device_id |-> c.device_id, groups |-> [k \in {} |-> "m"]]

\* The StoredProperties the Collator's handlers build.
StoredOf(c) == [distinct_id |-> c.distinct_id, anonymous_distinct_id |-> c.anon_distinct_id,
                device_id |-> c.device_id, groups |-> c.groups]

\* What Storage holds after `if let Err(e) = self.storage.store(..)`: a failed
\* store is logged and leaves what was stored.
StoreOutcome(c) == IF storeFails THEN stored ELSE StoredOf(c)

\* The reply of handle_message_get_session_properties.
SessionProps(c) == [present |-> TRUE, distinct_id |-> distinct_id(c),
                    anon |-> c.anon_distinct_id, groups |-> c.groups]

\* --------------------------------------------------------------- channels
RecordersAlive == \E c \in Callers : cpc[c] # "gone"

\* Senders of the Collator's channel: the Recorders and ConfigurationProxy.collator.
CollatorSendersAlive == RecordersAlive \/ proxyStatus = "running"

\* The callers whose one-shot sender travels in a message of q.
TxIn(q) == {q[i].tx : i \in {j \in 1..Len(q) : "tx" \in DOMAIN q[j]}} \ {Dropped, ProxyTx}

\* A caller drops its one-shot receiver: the sender stays in the message.
DropRx(q, c) == [i \in 1..Len(q) |->
                    IF "tx" \in DOMAIN q[i] /\ q[i].tx = c
                    THEN [q[i] EXCEPT !.tx = Dropped] ELSE q[i]]

\* Senders dropped with their messages: their receivers see the channel closed.
CloseReplies(r, lost) == [c \in Callers |-> IF c \in lost THEN ClosedReply ELSE r[c]]

\* A broadcast::Receiver: live, and how many values sent since it last read.
NoSub == [live |-> FALSE, unseen |-> 0]
NewSub == [live |-> TRUE, unseen |-> 0]

\* broadcast::Sender::send on a channel of capacity 1: a receiver that has not
\* read the previous value lags behind.
Notify(s) == [c \in Callers |->
                IF s[c].live
                THEN [s[c] EXCEPT !.unseen = IF s[c].unseen = 0 THEN 1 ELSE 2]
                ELSE s[c]]

\* ------------------------------------------------------------------- Init
\* Worker::new has spawned the three tasks and is about to run the initial
\* configuration sync on the building task (InitCaller).
InitExceptOps ==
    /\ cpc = [c \in Callers |-> IF c = InitCaller THEN "tcr_gsp" ELSE "gone"]
    /\ cdata = [c \in Callers |-> "its-true"]
    /\ creply = [c \in Callers |-> NoReply]
    /\ csub = [c \in Callers |-> NoSub]
    /\ wsub = [c \in Callers |-> NoSub]
    /\ cres = [c \in Callers |-> [op |-> "none", val |-> "none"]]
    /\ built = FALSE
    /\ collatorQ = <<>>
    /\ collatorStatus = "running"
    /\ stored = [none |-> TRUE]
    /\ nextUuid = 1
    /\ proxyQ = <<>>
    /\ proxyStatus = "running"
    /\ checkin = NoCheckin
    /\ checkinQ = <<>>
    /\ cwPc = "idle"
    /\ cwJob = [props |-> DefaultProps, tx |-> Dropped, of |-> "none"]
    /\ proxyReply = NoReply
    /\ refreshTicks = 0
    /\ submitQ = <<>>
    /\ subPc = "top"
    /\ events = <<>>
    /\ flushTicks = 0
    /\ waitPc = "join_configuration"
    /\ nextId = 1
    /\ enqueued = {}
    /\ offered = {}
    /\ submitFailed = FALSE
    /\ submitted = {}
    /\ cancelled = FALSE
    /\ proxyErr = "none"
    /\ lastFresh = [none |-> FALSE]
    /\ idPairs = {}
    /\ answeredInFlight = FALSE
    /\ server_options = DefaultServerOptions
    /\ reqs = [r \in Requests |-> IdleRequest]
    /\ jsonFile = NoFile
    /\ storedProps = NoProps
    /\ loadedProps = NotLoaded
    /\ txn = [c \in Callers |-> NoTxn]
    /\ storeFails = FALSE
    /\ inCall = [c \in Callers |-> NoCall]

\* Worker::new, the Collator apart; the callers may start MaxOps operations.
InitExceptCollator ==
    /\ InitExceptOps
    /\ opsLeft = MaxOps

\* Worker::new with nothing supplied to Collator::new.
Init ==
    /\ InitExceptCollator
    /\ col = Collator_new(NoneId, NoneId, NoneId)

\* Worker::new with any anonymous ids supplied to Collator::new.
InitSeeded ==
    /\ InitExceptCollator
    /\ \E builder \in AnonInputs, storedIdent \in AnonInputs, correlation \in AnonInputs :
          col = Collator_new(builder, storedIdent, correlation)

\* --------------------------------------------------------------- Collator
ColHead == collatorQ[1]
\* A Collator that takes a signal only while the check-in worker is idle.
ColRecvWhenCheckinIdle(type) ==
    /\ collatorStatus = "running"
    /\ collatorQ # <<>>
    /\ ColHead.type = type
    /\ cwPc = "idle"

ColRecv(type) ==
    /\ collatorStatus = "running"
    /\ collatorQ # <<>>
    /\ ColHead.type = type

\* Collator::handle_message_get_session_properties, reached from execute.
\* The reply is sent with `?`: a dropped receiver ends execute with
\* SnapshotError::Reply, dropping the channel and what is queued in it.
handle_message_get_session_properties ==
    /\ ColRecv("GetSessionProperties")
    /\ IF ColHead.tx = Dropped
       THEN /\ collatorStatus' = "err"
            /\ collatorQ' = <<>>
            /\ creply' = CloseReplies(creply, TxIn(Tail(collatorQ)))
            /\ proxyReply' = IF \E i \in 2..Len(collatorQ) :
                                   /\ collatorQ[i].type = "GetSessionProperties"
                                   /\ collatorQ[i].tx = ProxyTx
                             THEN ClosedReply ELSE proxyReply
       ELSE /\ collatorStatus' = "running"
            /\ collatorQ' = Tail(collatorQ)
            /\ IF ColHead.tx = ProxyTx
               THEN /\ proxyReply' = ValReply(SessionProps(col))
                    /\ creply' = creply
               ELSE /\ creply' = [creply EXCEPT ![ColHead.tx] = ValReply(SessionProps(col))]
                    /\ proxyReply' = proxyReply
    /\ UNCHANGED <<cpc, cdata, csub, wsub, cres, built, opsLeft, col, stored, nextUuid,
                   proxyQ, proxyStatus, checkin, checkinQ, cwPc, cwJob, refreshTicks,
                   submitterVars, waitPc, inCall, storeFails, txn, storageVars, httpVars, ghostVars>>

\* Collator::handle_message_fact
handle_message_fact ==
    /\ ColRecv("Fact")
    /\ collatorQ' = Tail(collatorQ)
    /\ col' = [col EXCEPT !.facts =
                 [k \in DOMAIN col.facts \cup {ColHead.key} |->
                    IF k = ColHead.key THEN ColHead.value ELSE col.facts[k]]]
    /\ UNCHANGED <<callerVars, collatorStatus, stored, nextUuid, proxyVars,
                   submitterVars, waitPc, inCall, storeFails, txn, storageVars, httpVars, ghostVars>>

\* Collator::handle_message_update_feature_facts
handle_message_update_feature_facts ==
    /\ ColRecv("UpdateFeatureFacts")
    /\ collatorQ' = Tail(collatorQ)
    /\ col' = [col EXCEPT !.featurefacts = ColHead.ff]
    /\ UNCHANGED <<callerVars, collatorStatus, stored, nextUuid, proxyVars,
                   submitterVars, waitPc, inCall, storeFails, txn, storageVars, httpVars, ghostVars>>

\* The Collator forwards an event: outgoing.send waits for room in the channel.
Forward(c, src, name, properties) ==
    /\ Len(submitQ) < ChanCap
    /\ submitQ' = Append(submitQ, [type |-> "Event",
                                   event |-> msg_to_event(c, src, name, properties)])
    /\ idPairs' = LET e == msg_to_event(c, src, name, properties) IN
                     IF e.distinct_id # e.anon_distinct_id
                     THEN idPairs \cup {<<e.distinct_id, e.anon_distinct_id>>}
                     ELSE idPairs

\* Collator::handle_message_event
handle_message_event ==
    /\ ColRecv("Event")
    /\ Forward(col, ColHead.id, ColHead.name, ColHead.properties)
    /\ collatorQ' = Tail(collatorQ)
    /\ UNCHANGED <<callerVars, collatorStatus, col, stored, nextUuid, proxyVars,
                   subPc, events, flushTicks, waitPc, inCall, storeFails, answeredInFlight, txn, storageVars, httpVars, nextId, enqueued, offered, submitFailed, submitted, cancelled, proxyErr,
                   lastFresh>>

\* An Identify that never regenerates the anonymous id.
IdentifyStateKeepsAnon(c, new, uuid) == [c EXCEPT !.distinct_id = new]

\* An Identify that changes the identity only when it can be persisted.
IdentifyStateUnlessStoreFails(c, new, uuid) ==
    IF storeFails THEN c
    ELSE [c EXCEPT !.distinct_id = new,
                   !.anon_distinct_id = IF c.distinct_id # NoneId THEN FreshUuid(uuid)
                                        ELSE c.anon_distinct_id]

\* The identity after Identify(new): a previous distinct_id rotates the anonymous id.
IdentifyState(c, new, uuid) ==
    [c EXCEPT !.distinct_id = new,
              !.anon_distinct_id = IF c.distinct_id # NoneId THEN FreshUuid(uuid)
                                   ELSE c.anon_distinct_id]

\* Collator::handle_message_identify
handle_message_identify ==
    /\ ColRecv("Identify")
    /\ col' = IdentifyState(col, ColHead.new, nextUuid)
    /\ nextUuid' = IF col.distinct_id # NoneId THEN nextUuid + 1 ELSE nextUuid
    /\ stored' = StoreOutcome(col')
    /\ Forward(col', ColHead.id, "$identify", "none")
    /\ collatorQ' = Tail(collatorQ)
    /\ UNCHANGED <<callerVars, collatorStatus, proxyVars, subPc, events, flushTicks,
                   waitPc, inCall, storeFails, answeredInFlight, txn, storageVars, httpVars, nextId, enqueued, offered, submitFailed, submitted, cancelled, proxyErr,
                   lastFresh>>

\* Collator::handle_message_add_group
handle_message_add_group ==
    /\ ColRecv("AddGroup")
    /\ col' = [col EXCEPT !.groups =
                 [k \in DOMAIN col.groups \cup {ColHead.group_name} |->
                    IF k = ColHead.group_name THEN ColHead.group_member_id
                    ELSE col.groups[k]]]
    /\ stored' = StoreOutcome(col')
    /\ collatorQ' = Tail(collatorQ)
    /\ UNCHANGED <<callerVars, collatorStatus, nextUuid, proxyVars, submitterVars,
                   waitPc, inCall, storeFails, txn, storageVars, httpVars, ghostVars>>

\* Collator::handle_message_alias
handle_message_alias ==
    /\ ColRecv("Alias")
    /\ Forward(col, ColHead.id, "$create_alias", ColHead.alias)
    /\ collatorQ' = Tail(collatorQ)
    /\ UNCHANGED <<callerVars, collatorStatus, col, stored, nextUuid, proxyVars,
                   subPc, events, flushTicks, waitPc, inCall, storeFails, answeredInFlight, txn, storageVars, httpVars, nextId, enqueued, offered, submitFailed, submitted, cancelled, proxyErr,
                   lastFresh>>

\* A Reset that clears the distinct_id and keeps the anonymous id.
ResetKeepsAnon ==
    /\ ColRecv("Reset")
    /\ col' = [col EXCEPT !.distinct_id = NoneId]
    /\ stored' = StoreOutcome(col')
    /\ collatorQ' = Tail(collatorQ)
    /\ UNCHANGED <<callerVars, collatorStatus, nextUuid, proxyVars, submitterVars, waitPc, inCall, storeFails, txn, storageVars, httpVars,
                   ghostVars>>

\* Collator::handle_message_reset
handle_message_reset ==
    /\ ColRecv("Reset")
    /\ col' = [col EXCEPT !.distinct_id = NoneId, !.anon_distinct_id = FreshUuid(nextUuid)]
    /\ nextUuid' = nextUuid + 1
    /\ stored' = StoreOutcome(col')
    /\ collatorQ' = Tail(collatorQ)
    /\ UNCHANGED <<callerVars, collatorStatus, proxyVars, submitterVars, waitPc, inCall, storeFails, txn, storageVars, httpVars, ghostVars>>

\* Collator::handle_message_flush_now
handle_message_flush_now ==
    /\ ColRecv("FlushNow")
    /\ Len(submitQ) < ChanCap
    /\ submitQ' = Append(submitQ, [type |-> "FlushNow"])
    /\ collatorQ' = Tail(collatorQ)
    /\ UNCHANGED <<callerVars, collatorStatus, col, stored, nextUuid, proxyVars,
                   subPc, events, flushTicks, waitPc, inCall, storeFails, txn, storageVars, httpVars, ghostVars>>

\* Collator::execute after its loop: recv returned None (every sender dropped and
\* the channel drained), so it sends the final FlushNow and returns Ok.
CollatorFinish ==
    /\ collatorStatus = "running"
    /\ collatorQ = <<>>
    /\ ~CollatorSendersAlive
    /\ Len(submitQ) < ChanCap
    /\ submitQ' = Append(submitQ, [type |-> "FlushNow"])
    /\ collatorStatus' = "ok"
    /\ UNCHANGED <<callerVars, collatorQ, col, stored, nextUuid, proxyVars,
                   subPc, events, flushTicks, waitPc, inCall, storeFails, txn, storageVars, httpVars, ghostVars>>

\* Collator::execute: one iteration of its loop, or its end.
CollatorStep ==
    \/ handle_message_get_session_properties
    \/ handle_message_fact
    \/ handle_message_update_feature_facts
    \/ handle_message_event
    \/ handle_message_identify
    \/ handle_message_add_group
    \/ handle_message_alias
    \/ handle_message_reset
    \/ handle_message_flush_now
    \/ CollatorFinish

\* ----------------------------------------------------- ConfigurationProxy
IdleJob == [props |-> DefaultProps, tx |-> Dropped, of |-> "none"]

\* The one-shot senders the ConfigurationProxy holds besides those in `rest`.
ProxyHeldTx(rest) ==
    TxIn(rest) \cup TxIn(checkinQ)
        \cup (IF cwPc = "in_transport" THEN {cwJob.tx} \ {Dropped, ProxyTx} ELSE {})

\* ConfigurationProxy::execute returns: the select! drops both workers, and with
\* them the two channels, every request still queued, the refresh in flight,
\* the receiver check_in_now awaits, the Collator sender and change_notifier.
ProxyExit(st, why, rest, r) ==
    /\ proxyStatus' = st
    /\ proxyErr' = why
    /\ proxyQ' = <<>>
    /\ checkinQ' = <<>>
    /\ cwPc' = "idle"
    /\ cwJob' = IdleJob
    /\ proxyReply' = NoReply
    /\ creply' = CloseReplies(r, ProxyHeldTx(rest))
    /\ collatorQ' = DropRx(collatorQ, ProxyTx)

PxHead == proxyQ[1]

\* An intake that waits for the check-in worker: no request is received while
\* transport.checkin is pending.
PxRecvWhenIdle(type) ==
    /\ proxyStatus = "running"
    /\ proxyQ # <<>>
    /\ PxHead.type = type
    /\ cwPc # "in_transport"

\* execute_incoming_worker: incoming.recv() returns a request of this type.
PxRecv(type) ==
    /\ proxyStatus = "running"
    /\ proxyQ # <<>>
    /\ PxHead.type = type

\* The status handle_message_query_if_checked_in computes.
CheckinStatusOf(cache) == IF cache # NoCheckin THEN "CheckedIn" ELSE "NotYet"

\* The feature handle_message_get_feature computes.
FeatureOf(cache, name) ==
    IF cache # NoCheckin /\ name \in DOMAIN cache.options
    THEN [some |-> TRUE, variant |-> cache.options[name]]
    ELSE [some |-> FALSE, variant |-> "none"]

\* A handler of the incoming worker replies with v; the send is followed by `?`,
\* so a dropped receiver ends execute_incoming_worker, and execute, with an error.
PxReply(v) ==
    IF PxHead.tx = Dropped
    THEN ProxyExit("err", PxHead.of, Tail(proxyQ), creply)
    ELSE /\ creply' = [creply EXCEPT ![PxHead.tx] = ValReply(v)]
         /\ proxyQ' = Tail(proxyQ)
         /\ UNCHANGED <<proxyStatus, proxyErr, checkinQ, cwPc, cwJob, proxyReply, collatorQ>>

\* ConfigurationProxy::handle_message_query_if_checked_in
handle_message_query_if_checked_in ==
    /\ PxRecv("QueryIfCheckedIn")
    /\ answeredInFlight' = (answeredInFlight \/ (PxHead.tx # Dropped /\ cwPc = "in_transport"))
    /\ PxReply(CheckinStatusOf(checkin))
    /\ UNCHANGED <<cpc, cdata, csub, wsub, cres, built, opsLeft, collatorStatus, col,
                   stored, nextUuid, checkin, refreshTicks, submitterVars, waitPc, inCall, storeFails, txn, storageVars, httpVars,
                   nextId, enqueued, offered, submitFailed, submitted, cancelled, lastFresh, idPairs>>

\* ConfigurationProxy::handle_message_get_feature
handle_message_get_feature ==
    /\ PxRecv("GetFeature")
    /\ answeredInFlight' = (answeredInFlight \/ (PxHead.tx # Dropped /\ cwPc = "in_transport"))
    /\ PxReply(FeatureOf(checkin, PxHead.name))
    /\ UNCHANGED <<cpc, cdata, csub, wsub, cres, built, opsLeft, collatorStatus, col,
                   stored, nextUuid, checkin, refreshTicks, submitterVars, waitPc, inCall, storeFails, txn, storageVars, httpVars,
                   nextId, enqueued, offered, submitFailed, submitted, cancelled, lastFresh, idPairs>>

\* ConfigurationProxy::handle_message_subscribe: change_notifier.subscribe() makes
\* the receiver here; it belongs to the requester from this moment on.
handle_message_subscribe ==
    /\ PxRecv("Subscribe")
    /\ answeredInFlight' = (answeredInFlight \/ (PxHead.tx # Dropped /\ cwPc = "in_transport"))
    /\ PxReply("subscribed")
    /\ IF PxHead.tx = Dropped
       THEN UNCHANGED <<csub, wsub>>
       ELSE IF cpc[PxHead.tx] = "wfc_sub"
            THEN /\ wsub' = [wsub EXCEPT ![PxHead.tx] = NewSub]
                 /\ csub' = csub
            ELSE /\ csub' = [csub EXCEPT ![PxHead.tx] = NewSub]
                 /\ wsub' = wsub
    /\ UNCHANGED <<cpc, cdata, cres, built, opsLeft, collatorStatus, col,
                   stored, nextUuid, checkin, refreshTicks, submitterVars, waitPc, inCall, storeFails, txn, storageVars, httpVars,
                   nextId, enqueued, offered, submitFailed, submitted, cancelled, lastFresh, idPairs>>

\* execute_incoming_worker on CheckInNow: hand the request to the check-in worker.
ForwardCheckInNow ==
    /\ PxRecv("CheckInNow")
    /\ Len(checkinQ) < ChanCap
    /\ checkinQ' = Append(checkinQ, [props |-> PxHead.props, tx |-> PxHead.tx,
                                      of |-> PxHead.of])
    /\ proxyQ' = Tail(proxyQ)
    /\ UNCHANGED <<callerVars, collatorVars, proxyStatus, checkin, cwPc, cwJob,
                   proxyReply, refreshTicks, submitterVars, waitPc, inCall, storeFails, txn, storageVars, httpVars, ghostVars>>

\* execute_incoming_worker: recv returned None (every Recorder dropped, channel
\* drained); it returns Ok and execute's select! returns with it.
IncomingClosed ==
    /\ proxyStatus = "running"
    /\ proxyQ = <<>>
    /\ ~RecordersAlive
    /\ ProxyExit("ok", "none", <<>>, creply)
    /\ UNCHANGED <<cpc, cdata, csub, wsub, cres, built, opsLeft, collatorStatus, col,
                   stored, nextUuid, checkin, refreshTicks, submitterVars, waitPc, inCall, storeFails, txn, storageVars, httpVars,
                   nextId, enqueued, offered, submitFailed, submitted, cancelled, lastFresh, idPairs, answeredInFlight>>

\* execute_checkin_worker: a CheckInNow is received and handle_message_check_in_now
\* starts transport.checkin.
StartCheckIn ==
    /\ proxyStatus = "running"
    /\ cwPc = "idle"
    /\ checkinQ # <<>>
    /\ cwJob' = checkinQ[1]
    /\ checkinQ' = Tail(checkinQ)
    /\ cwPc' = "in_transport"
    /\ UNCHANGED <<callerVars, collatorVars, proxyQ, proxyStatus, checkin, proxyReply,
                   refreshTicks, submitterVars, waitPc, inCall, storeFails, txn, storageVars, httpVars, ghostVars>>

\* execute_checkin_worker: the refresh interval ticks (the biased select! polls
\* the channel first) and check_in_now asks the Collator for session properties.
RefreshTick ==
    /\ proxyStatus = "running"
    /\ cwPc = "idle"
    /\ checkinQ = <<>>
    /\ refreshTicks < MaxRefreshTicks
    /\ refreshTicks' = refreshTicks + 1
    /\ IF collatorStatus # "running"
       THEN /\ ProxyExit("err", "collator", proxyQ, creply)
            /\ UNCHANGED <<collatorStatus>>
       ELSE /\ Len(collatorQ) < ChanCap
            /\ collatorQ' = Append(collatorQ, [type |-> "GetSessionProperties", tx |-> ProxyTx])
            /\ cwPc' = "wait_props"
            /\ UNCHANGED <<proxyQ, proxyStatus, proxyErr, checkinQ, cwJob, proxyReply,
                           creply, collatorStatus>>
    /\ UNCHANGED <<cpc, cdata, csub, wsub, cres, built, opsLeft, col, stored, nextUuid,
                   checkin, submitterVars, waitPc, inCall, storeFails, txn, storageVars, httpVars, nextId, enqueued, offered,
                   submitFailed, submitted, cancelled, lastFresh, idPairs, answeredInFlight>>

\* check_in_now: the Collator's reply arrives (or its sender was dropped, which
\* `?` turns into the end of execute).
GotSessionProperties ==
    /\ proxyStatus = "running"
    /\ cwPc = "wait_props"
    /\ proxyReply # NoReply
    /\ IF proxyReply = ClosedReply
       THEN ProxyExit("err", "collator", proxyQ, creply)
       ELSE /\ cwJob' = [props |-> proxyReply.val, tx |-> ProxyTx, of |-> "periodic"]
            /\ cwPc' = "in_transport"
            /\ proxyReply' = NoReply
            /\ UNCHANGED <<proxyQ, proxyStatus, proxyErr, checkinQ, creply, collatorQ>>
    /\ UNCHANGED <<cpc, cdata, csub, wsub, cres, built, opsLeft, collatorStatus, col,
                   stored, nextUuid, checkin, refreshTicks, submitterVars, waitPc, inCall, storeFails, txn, storageVars, httpVars,
                   nextId, enqueued, offered, submitFailed, submitted, cancelled, lastFresh, idPairs, answeredInFlight>>

\* A `changed` that does not look at whether the check-in succeeded.
ChangedIgnoringError(cache, fresh) == fresh # cache

\* handle_message_check_in_now: `changed`.
Changed(cache, fresh) == fresh # NoCheckin /\ fresh # cache

\* A refresh that stores whatever transport.checkin returned, an error included.
RefreshedCacheTakingFresh(cache, fresh) == fresh

\* handle_message_check_in_now: the cache after the refresh.
RefreshedCache(cache, fresh) == IF Changed(cache, fresh) THEN fresh ELSE cache

\* handle_message_check_in_now: the feature-facts of the reply.
FeatureFactsOf(cache) ==
    IF cache # NoCheckin THEN as_feature_facts(cache) ELSE DefaultFeatureFacts

\* handle_message_check_in_now from transport.checkin's return on: fresh is
\* NoCheckin for an error. The cache is written, then the reply is sent with
\* `?`, then the change is broadcast.
handle_message_check_in_now(fresh) ==
    /\ proxyStatus = "running"
    /\ cwPc = "in_transport"
    /\ checkin' = RefreshedCache(checkin, fresh)
    /\ lastFresh' = fresh
    /\ IF cwJob.tx = Dropped
       THEN /\ ProxyExit("err", cwJob.of, proxyQ, creply)
            /\ UNCHANGED <<csub, wsub>>
       ELSE /\ creply' = IF cwJob.tx = ProxyTx THEN creply
                         ELSE [creply EXCEPT ![cwJob.tx] =
                                 ValReply([config |-> checkin',
                                           feats |-> FeatureFactsOf(checkin')])]
            /\ csub' = IF Changed(checkin, fresh) THEN Notify(csub) ELSE csub
            /\ wsub' = IF Changed(checkin, fresh) THEN Notify(wsub) ELSE wsub
            /\ cwPc' = "idle"
            /\ cwJob' = IdleJob
            /\ UNCHANGED <<proxyQ, proxyStatus, proxyErr, checkinQ, proxyReply, collatorQ>>
    /\ UNCHANGED <<cpc, cdata, cres, built, opsLeft, collatorStatus, col, stored,
                   nextUuid, refreshTicks, submitterVars, waitPc, inCall, storeFails, txn, storageVars, nextId, enqueued,
                   offered, submitFailed, submitted, cancelled, idPairs, answeredInFlight>>

\* transport.checkin returns an error or one of the documents.
CheckInReturns ==
    /\ \E fresh \in Checkins \cup {NoCheckin} : handle_message_check_in_now(fresh)
    /\ UNCHANGED httpVars

\* ConfigurationProxy::execute_incoming_worker: one iteration, or its end.
IncomingWorkerStep ==
    \/ handle_message_query_if_checked_in
    \/ handle_message_get_feature
    \/ handle_message_subscribe
    \/ ForwardCheckInNow
    \/ IncomingClosed

\* ConfigurationProxy::execute_checkin_worker: one step of one iteration.
CheckinWorkerStep ==
    \/ StartCheckIn
    \/ RefreshTick
    \/ GotSessionProperties
    \/ CheckInReturns

\* -------------------------------------------------------------- Submitter
\* A flush that empties the buffer whatever transport.submit returns.
try_flush_dropping_batch(ok) ==
    IF events = <<>>
    THEN /\ ok
         /\ UNCHANGED <<events, offered, submitFailed, submitted>>
    ELSE /\ offered' = offered \cup {events[i].src : i \in 1..Len(events)}
         /\ events' = <<>>
         /\ submitFailed' = (submitFailed \/ ~ok)
         /\ submitted' = IF ok THEN submitted \cup {events[i].src : i \in 1..Len(events)}
                               ELSE submitted

\* Submitter::try_flush: nothing to do on an empty buffer; otherwise the whole
\* buffer is passed to transport.submit, and truncated when that succeeds.
try_flush(ok) ==
    IF events = <<>>
    THEN /\ ok
         /\ UNCHANGED <<events, offered, submitFailed, submitted>>
    ELSE /\ offered' = offered \cup {events[i].src : i \in 1..Len(events)}
         /\ events' = IF ok THEN <<>> ELSE events
         /\ submitFailed' = (submitFailed \/ ~ok)
         /\ submitted' = IF ok THEN submitted \cup {events[i].src : i \in 1..Len(events)}
                               ELSE submitted

SubmitterClosed == collatorStatus # "running"

\* Submitter::execute, top of the loop: is_closed() && is_empty() breaks.
SubmitterTop ==
    /\ subPc = "top"
    /\ subPc' = IF SubmitterClosed /\ submitQ = <<>> THEN "done" ELSE "select"
    /\ UNCHANGED <<callerVars, collatorVars, proxyVars, submitQ, events, flushTicks,
                   waitPc, inCall, storeFails, txn, storageVars, httpVars, ghostVars>>

\* Submitter::execute, select!: the interval ticks.
FlushTick ==
    /\ subPc = "select"
    /\ flushTicks < MaxFlushTicks
    /\ flushTicks' = flushTicks + 1
    /\ \E ok \in BOOLEAN : try_flush(ok)
    /\ subPc' = "top"
    /\ UNCHANGED <<callerVars, collatorVars, proxyVars, submitQ, waitPc, inCall, storeFails, txn, storageVars, httpVars, nextId,
                   enqueued, cancelled, proxyErr, lastFresh, idPairs, answeredInFlight>>

\* Submitter::execute, select!: an Event is received.
SubmitterEvent ==
    /\ subPc = "select"
    /\ submitQ # <<>>
    /\ submitQ[1].type = "Event"
    /\ events' = Append(events, submitQ[1].event)
    /\ submitQ' = Tail(submitQ)
    /\ subPc' = "top"
    /\ UNCHANGED <<callerVars, collatorVars, proxyVars, flushTicks, waitPc, inCall, storeFails, txn, storageVars, httpVars, ghostVars>>

\* Submitter::execute, select!: a FlushNow is received.
SubmitterFlushNow ==
    /\ subPc = "select"
    /\ submitQ # <<>>
    /\ submitQ[1].type = "FlushNow"
    /\ \E ok \in BOOLEAN : try_flush(ok)
    /\ submitQ' = Tail(submitQ)
    /\ subPc' = "top"
    /\ UNCHANGED <<callerVars, collatorVars, proxyVars, flushTicks, waitPc, inCall, storeFails, txn, storageVars, httpVars, nextId,
                   enqueued, cancelled, proxyErr, lastFresh, idPairs, answeredInFlight>>

\* Submitter::execute, select!: recv returns None; final flush and return.
SubmitterNone ==
    /\ subPc = "select"
    /\ submitQ = <<>>
    /\ SubmitterClosed
    /\ \E ok \in BOOLEAN : try_flush(ok)
    /\ subPc' = "done"
    /\ UNCHANGED <<callerVars, collatorVars, proxyVars, submitQ, flushTicks, waitPc, inCall, storeFails, txn, storageVars, httpVars,
                   nextId, enqueued, cancelled, proxyErr, lastFresh, idPairs, answeredInFlight>>

SubmitterStep ==
    \/ SubmitterTop
    \/ FlushTick
    \/ SubmitterEvent
    \/ SubmitterFlushNow
    \/ SubmitterNone

\* ------------------------------------------------------ SrvHttpTransport
\* perform_request, entry: the algorithms to try are read from the cached
\* server options.
BeginRequest(r) ==
    reqs' = [reqs EXCEPT ![r] = [pc |-> "sending", algos |-> into_iter(server_options),
                                 attempts |-> <<>>, result |-> "none"]]

\* perform_request, one turn of its loop: the request is sent with the next
\* algorithm. A 415 deletes that algorithm from the cached options and the
\* loop goes on, ending with NoCompressionMode when nothing is left; any other
\* response is returned as it is, and an error of the send is returned as an error.
perform_request(r) ==
    /\ reqs[r].pc = "sending"
    /\ \E answer \in Answers :
          LET algo == Head(reqs[r].algos)
              rest == Tail(reqs[r].algos)
              attempts == Append(reqs[r].attempts, [algo |-> algo, answer |-> answer])
          IN  IF answer = "415"
              THEN /\ server_options' = delete(server_options, algo)
                   /\ reqs' = [reqs EXCEPT ![r] =
                                 [pc |-> IF rest = <<>> THEN "done" ELSE "sending",
                                  algos |-> rest, attempts |-> attempts,
                                  result |-> IF rest = <<>> THEN "NoCompressionMode"
                                             ELSE "none"]]
              ELSE /\ server_options' = server_options
                   /\ reqs' = [reqs EXCEPT ![r] =
                                 [pc |-> "done", algos |-> rest, attempts |-> attempts,
                                  result |-> IF answer = "error" THEN "Reqwest"
                                             ELSE answer]]
    /\ UNCHANGED <<callerVars, collatorVars, proxyVars, submitterVars, waitPc, inCall, storeFails, txn, storageVars, ghostVars>>

\* Submitter::try_flush up to the call of SrvHttpTransport::submit: nothing to
\* do on an empty buffer, otherwise the request is started and the Submitter
\* waits for it in the arm of the select! it is in.
HttpTryFlush(arm) ==
    IF events = <<>>
    THEN /\ subPc' = "top"
         /\ UNCHANGED reqs
    ELSE /\ subPc' = arm
         /\ BeginRequest("submit")

\* Submitter::execute, select!: the interval ticks (SrvHttp transport).
HttpFlushTick ==
    /\ subPc = "select"
    /\ flushTicks < MaxFlushTicks
    /\ flushTicks' = flushTicks + 1
    /\ HttpTryFlush("submit_tick")
    /\ UNCHANGED <<callerVars, collatorVars, proxyVars, submitQ, events, waitPc, inCall, storeFails, txn, storageVars, ghostVars,
                   server_options>>

\* Submitter::execute, select!: a FlushNow is received (SrvHttp transport).
HttpSubmitterFlushNow ==
    /\ subPc = "select"
    /\ submitQ # <<>>
    /\ submitQ[1].type = "FlushNow"
    /\ submitQ' = Tail(submitQ)
    /\ HttpTryFlush("submit_flush_now")
    /\ UNCHANGED <<callerVars, collatorVars, proxyVars, events, flushTicks, waitPc, inCall, storeFails, txn, storageVars,
                   ghostVars, server_options>>

\* SrvHttpTransport::submit returns: Ok for a response with a success status,
\* an error otherwise; try_flush truncates the buffer on Ok and the Submitter
\* goes back to the top of its loop.
SubmitReturns ==
    /\ subPc \in {"submit_tick", "submit_flush_now"}
    /\ reqs["submit"].pc = "done"
    /\ try_flush(reqs["submit"].result = "200")
    /\ reqs' = [reqs EXCEPT !["submit"] = IdleRequest]
    /\ subPc' = "top"
    /\ UNCHANGED <<callerVars, collatorVars, proxyVars, submitQ, flushTicks, waitPc, inCall, storeFails, txn, storageVars,
                   nextId, enqueued, cancelled, proxyErr, lastFresh, idPairs, answeredInFlight,
                   server_options>>

\* SrvHttpTransport::checkin is entered by handle_message_check_in_now.
HttpCheckIn ==
    /\ proxyStatus = "running"
    /\ cwPc = "in_transport"
    /\ reqs["checkin"].pc = "idle"
    /\ BeginRequest("checkin")
    /\ UNCHANGED <<callerVars, collatorVars, proxyVars, submitterVars, waitPc, inCall, storeFails, txn, storageVars, ghostVars,
                   server_options>>

\* SrvHttpTransport::checkin returns: the body of a response is parsed as a
\* Checkin, whatever its status; a parsed document replaces the cached server
\* options and is returned, anything else is an error.
HttpCheckInReturns ==
    /\ reqs["checkin"].pc = "done"
    /\ \E body \in HttpCheckins \cup {NoCheckin} :
          LET fresh == IF reqs["checkin"].result \in {"200", "500"} THEN body
                       ELSE NoCheckin
          IN  /\ handle_message_check_in_now(fresh)
              /\ server_options' = IF fresh # NoCheckin THEN fresh.server_options
                                   ELSE server_options
    /\ reqs' = [reqs EXCEPT !["checkin"] = IdleRequest]

\* ------------------------------------------------------- Transports::None
\* Transports::checkin for None: Ok with a Checkin that has no flags and the
\* default server options, without any request.
NoneCheckInReturns ==
    /\ handle_message_check_in_now(CheckinB)
    /\ UNCHANGED httpVars

\* Submitter::execute, select!: the interval ticks; Transports::submit for
\* None is Ok(()).
NoneFlushTick ==
    /\ subPc = "select"
    /\ flushTicks < MaxFlushTicks
    /\ flushTicks' = flushTicks + 1
    /\ try_flush(TRUE)
    /\ subPc' = "top"
    /\ UNCHANGED <<callerVars, collatorVars, proxyVars, submitQ, waitPc, inCall, storeFails, txn, storageVars, httpVars, nextId,
                   enqueued, cancelled, proxyErr, lastFresh, idPairs, answeredInFlight>>

\* Submitter::execute, select!: a FlushNow is received (None transport).
NoneSubmitterFlushNow ==
    /\ subPc = "select"
    /\ submitQ # <<>>
    /\ submitQ[1].type = "FlushNow"
    /\ try_flush(TRUE)
    /\ submitQ' = Tail(submitQ)
    /\ subPc' = "top"
    /\ UNCHANGED <<callerVars, collatorVars, proxyVars, flushTicks, waitPc, inCall, storeFails, txn, storageVars, httpVars, nextId,
                   enqueued, cancelled, proxyErr, lastFresh, idPairs, answeredInFlight>>

\* Submitter::execute, select!: recv returns None (None transport).
NoneSubmitterNone ==
    /\ subPc = "select"
    /\ submitQ = <<>>
    /\ SubmitterClosed
    /\ try_flush(TRUE)
    /\ subPc' = "done"
    /\ UNCHANGED <<callerVars, collatorVars, proxyVars, submitQ, flushTicks, waitPc, inCall, storeFails, txn, storageVars,
                   httpVars, nextId, enqueued, cancelled, proxyErr, lastFresh, idPairs, answeredInFlight>>

\* ------------------------------------------------------ storage::JsonFile
\* JsonFile::store: the properties are serialised and written to a temporary
\* file that replaces the location; a failure leaves the location as it was.
store(props, ok) ==
    /\ jsonFile' = IF ok THEN to_string_pretty(props) ELSE jsonFile
    /\ storedProps' = IF ok THEN props ELSE storedProps
    /\ UNCHANGED <<callerVars, collatorVars, proxyVars, submitterVars, waitPc, inCall, storeFails, txn, ghostVars,
                   httpVars, loadedProps>>

\* JsonFile::load: Error::Open when there is no file, Error::Json when
\* from_slice fails, otherwise the body of the parsed document.
load ==
    /\ loadedProps' = IF jsonFile = NoFile THEN [kind |-> "Open"]
                      ELSE IF "body" \notin DOMAIN jsonFile THEN [kind |-> "Json"]
                      ELSE [kind |-> "ok", of |-> storedProps, value |-> from_slice(jsonFile)]
    /\ UNCHANGED <<callerVars, collatorVars, proxyVars, submitterVars, waitPc, inCall, storeFails, txn, ghostVars,
                   httpVars, jsonFile, storedProps>>

\* ------------------------------------------------------------ Worker::wait
\* A wait that gives up at the first task that ended with an error.
WaitStepStopsOnError ==
    /\ \/ waitPc = "join_configuration" /\ proxyStatus = "ok"
          /\ waitPc' = "join_collator"
       \/ waitPc = "join_collator" /\ collatorStatus = "ok"
          /\ waitPc' = "join_submitter"
       \/ waitPc = "join_submitter" /\ subPc = "done"
          /\ waitPc' = "returned"
    /\ UNCHANGED <<callerVars, collatorVars, proxyVars, submitterVars, ghostVars, httpVars,
                   storageVars, txn, storeFails, inCall>>

\* Worker::wait: the three joins, in order; a task's error is only logged.
WaitStep ==
    /\ \/ waitPc = "join_configuration" /\ proxyStatus # "running"
          /\ waitPc' = "join_collator"
       \/ waitPc = "join_collator" /\ collatorStatus # "running"
          /\ waitPc' = "join_submitter"
       \/ waitPc = "join_submitter" /\ subPc = "done"
          /\ waitPc' = "returned"
    /\ UNCHANGED <<callerVars, collatorVars, proxyVars, submitterVars, ghostVars, httpVars,
                   storageVars, txn, storeFails, inCall>>

\* --------------------------------------------------------------- Recorder
\* A channel that hands over the newest signal first.
SendToCollatorNewestFirst(msg) ==
    IF collatorStatus # "running"
    THEN collatorQ' = collatorQ
    ELSE /\ Len(collatorQ) < ChanCap
         /\ collatorQ' = <<msg>> \o collatorQ

\* mpsc::Sender::send to the Collator: an error once the receiver is gone,
\* otherwise it waits for room and enqueues.
SendToCollator(msg) ==
    IF collatorStatus # "running"
    THEN collatorQ' = collatorQ
    ELSE /\ Len(collatorQ) < ChanCap
         /\ collatorQ' = Append(collatorQ, msg)

\* mpsc::Sender::send to the ConfigurationProxy.
SendToProxy(msg) ==
    IF proxyStatus # "running"
    THEN proxyQ' = proxyQ
    ELSE /\ Len(proxyQ) < ChanCap
         /\ proxyQ' = Append(proxyQ, msg)

\* A caller may start a Recorder call.
CanStart(c) ==
    /\ built
    /\ cpc[c] = "idle"
    /\ opsLeft > 0

\* An event-producing signal is sent to the Collator.
SendEventSignal(msg) ==
    /\ SendToCollator(msg)
    /\ nextId' = nextId + 1
    /\ enqueued' = IF collatorStatus = "running" THEN enqueued \cup {nextId} ELSE enqueued

\* Recorder::record
record(c) ==
    /\ CanStart(c)
    /\ opsLeft' = opsLeft - 1
    /\ SendEventSignal([type |-> "Event", id |-> nextId, name |-> "e", properties |-> "none"])
    /\ UNCHANGED <<cpc, cdata, creply, csub, wsub, cres, built, collatorStatus, col, stored,
                   nextUuid, proxyVars, submitterVars, waitPc, inCall, storeFails, txn, storageVars, httpVars, offered, submitFailed, submitted,
                   cancelled, proxyErr, lastFresh, idPairs, answeredInFlight>>

\* Recorder::set_fact
set_fact(c) ==
    /\ CanStart(c)
    /\ opsLeft' = opsLeft - 1
    /\ SendToCollator([type |-> "Fact", key |-> "f", value |-> "v"])
    /\ UNCHANGED <<cpc, cdata, creply, csub, wsub, cres, built, collatorStatus, col, stored,
                   nextUuid, proxyVars, submitterVars, waitPc, inCall, storeFails, txn, storageVars, httpVars, ghostVars>>

\* Recorder::flush_now
flush_now(c) ==
    /\ CanStart(c)
    /\ opsLeft' = opsLeft - 1
    /\ SendToCollator([type |-> "FlushNow"])
    /\ UNCHANGED <<cpc, cdata, creply, csub, wsub, cres, built, collatorStatus, col, stored,
                   nextUuid, proxyVars, submitterVars, waitPc, inCall, storeFails, txn, storageVars, httpVars, ghostVars>>

\* Recorder::identify (identify_with_properties): the signal, then the refresh.
identify(c, new) ==
    /\ CanStart(c)
    /\ opsLeft' = opsLeft - 1
    /\ SendEventSignal([type |-> "Identify", id |-> nextId, new |-> new])
    /\ cpc' = [cpc EXCEPT ![c] = "tcr_gsp"]
    /\ inCall' = [inCall EXCEPT ![c] = [op |-> "identify", arg |-> new, sent |-> 0]]
    /\ UNCHANGED <<cdata, creply, csub, wsub, cres, built, collatorStatus, col, stored,
                   nextUuid, proxyVars, submitterVars, waitPc, storeFails, txn, storageVars, httpVars, offered, submitFailed, submitted,
                   cancelled, proxyErr, lastFresh, idPairs, answeredInFlight>>

\* Recorder::alias
alias(c) ==
    /\ CanStart(c)
    /\ opsLeft' = opsLeft - 1
    /\ SendEventSignal([type |-> "Alias", id |-> nextId, alias |-> "al"])
    /\ cpc' = [cpc EXCEPT ![c] = "tcr_gsp"]
    /\ inCall' = [inCall EXCEPT ![c] = [op |-> "alias", arg |-> "al", sent |-> 0]]
    /\ UNCHANGED <<cdata, creply, csub, wsub, cres, built, collatorStatus, col, stored,
                   nextUuid, proxyVars, submitterVars, waitPc, storeFails, txn, storageVars, httpVars, offered, submitFailed, submitted,
                   cancelled, proxyErr, lastFresh, idPairs, answeredInFlight>>

\* Recorder::reset
reset(c) ==
    /\ CanStart(c)
    /\ opsLeft' = opsLeft - 1
    /\ SendToCollator([type |-> "Reset"])
    /\ cpc' = [cpc EXCEPT ![c] = "tcr_gsp"]
    /\ inCall' = [inCall EXCEPT ![c] = [op |-> "reset", arg |-> "none", sent |-> 0]]
    /\ UNCHANGED <<cdata, creply, csub, wsub, cres, built, collatorStatus, col, stored,
                   nextUuid, proxyVars, submitterVars, waitPc, storeFails, txn, storageVars, httpVars, ghostVars>>

\* Recorder::add_group
add_group(c) ==
    /\ CanStart(c)
    /\ opsLeft' = opsLeft - 1
    /\ SendToCollator([type |-> "AddGroup", group_name |-> "g", group_member_id |-> "m"])
    /\ cpc' = [cpc EXCEPT ![c] = "tcr_gsp"]
    /\ inCall' = [inCall EXCEPT ![c] = [op |-> "add_group", arg |-> "g", sent |-> 0]]
    /\ UNCHANGED <<cdata, creply, csub, wsub, cres, built, collatorStatus, col, stored,
                   nextUuid, proxyVars, submitterVars, waitPc, storeFails, txn, storageVars, httpVars, ghostVars>>

\* Recorder::trigger_configuration_refresh is entered (auto_refresh_config holds).
trigger_configuration_refresh(c) ==
    /\ CanStart(c)
    /\ opsLeft' = opsLeft - 1
    /\ cpc' = [cpc EXCEPT ![c] = "tcr_gsp"]
    /\ UNCHANGED <<cdata, creply, csub, wsub, cres, built, collatorVars, proxyVars,
                   submitterVars, waitPc, inCall, storeFails, txn, storageVars, httpVars, ghostVars>>

\* Recorder::get_session_properties: send GetSessionProperties; a failed send
\* is the same to the caller as a closed reply (Map::default()).
get_session_properties(c) ==
    /\ cpc[c] = "tcr_gsp"
    /\ SendToCollator([type |-> "GetSessionProperties", tx |-> c])
    /\ creply' = [creply EXCEPT ![c] =
                    IF collatorStatus # "running" THEN ClosedReply ELSE NoReply]
    /\ cpc' = [cpc EXCEPT ![c] = "tcr_props"]
    /\ UNCHANGED <<cdata, csub, wsub, cres, built, opsLeft, collatorStatus, col, stored,
                   nextUuid, proxyVars, submitterVars, waitPc, inCall, storeFails, txn, storageVars, httpVars, ghostVars>>

\* trigger_configuration_refresh: the session properties arrive (or default
\* ones are used) and CheckInNow is sent; if that send fails its one-shot
\* sender is dropped with it and the wait for the reply ends at once.
\* A CheckInNow sent while the caller is in in_configuration_txn is counted:
\* while the closure runs, or after it.
CountCheckInNow(t) ==
    IF t.state = "closure" THEN [t EXCEPT !.inClosure = @ + 1]
    ELSE IF t.state = "refresh" THEN [t EXCEPT !.afterClosure = @ + 1]
    ELSE t

SendCheckInNow(c) ==
    /\ cpc[c] = "tcr_props"
    /\ creply[c] # NoReply
    /\ SendToProxy([type |-> "CheckInNow", of |-> "refresh",
                    props |-> IF creply[c] = ClosedReply THEN DefaultProps
                              ELSE creply[c].val,
                    tx |-> c])
    /\ creply' = [creply EXCEPT ![c] = NoReply]
    /\ txn' = [txn EXCEPT ![c] = CountCheckInNow(txn[c])]
    /\ cpc' = [cpc EXCEPT ![c] = IF proxyStatus # "running" THEN "idle" ELSE "tcr_reply"]
    /\ built' = (built \/ proxyStatus # "running")
    /\ inCall' = [inCall EXCEPT ![c] = IF proxyStatus # "running" \/ @.op = "none" THEN NoCall
                                      ELSE [@ EXCEPT !.sent = @ + 1]]
    /\ UNCHANGED <<cdata, csub, wsub, cres, opsLeft, collatorVars, proxyStatus, checkin,
                   checkinQ, cwPc, cwJob, proxyReply, refreshTicks, submitterVars, waitPc, storeFails, storageVars, httpVars,
                   ghostVars>>

\* trigger_configuration_refresh: the CheckInNow reply arrives and its
\* feature-facts are forwarded to the Collator, or the reply channel is closed.
ForwardFeatureFacts(c) ==
    /\ cpc[c] = "tcr_reply"
    /\ creply[c] # NoReply
    /\ IF creply[c] = ClosedReply
       THEN collatorQ' = collatorQ
       ELSE SendToCollator([type |-> "UpdateFeatureFacts", ff |-> creply[c].val.feats])
    /\ creply' = [creply EXCEPT ![c] = NoReply]
    /\ cpc' = [cpc EXCEPT ![c] = "idle"]
    /\ built' = TRUE
    /\ inCall' = [inCall EXCEPT ![c] = NoCall]
    /\ UNCHANGED <<cdata, csub, wsub, cres, opsLeft, collatorStatus, col, stored, nextUuid,
                   proxyVars, submitterVars, waitPc, storeFails, txn, storageVars, httpVars, ghostVars>>

\* Recorder::get_feature: send GetFeature; None if the send fails.
get_feature(c, key) ==
    /\ CanStart(c)
    /\ opsLeft' = opsLeft - 1
    /\ SendToProxy([type |-> "GetFeature", of |-> "get_feature", name |-> key, tx |-> c])
    /\ cdata' = [cdata EXCEPT ![c] = key]
    /\ IF proxyStatus # "running"
       THEN /\ cres' = [cres EXCEPT ![c] = [op |-> "get_feature", val |-> "none"]]
            /\ cpc' = cpc
       ELSE /\ cpc' = [cpc EXCEPT ![c] = "gf_reply"]
            /\ cres' = cres
    /\ UNCHANGED <<creply, csub, wsub, built, collatorVars, proxyStatus, checkin, checkinQ,
                   cwPc, cwJob, proxyReply, refreshTicks, submitterVars, waitPc, inCall, storeFails, txn, storageVars, httpVars, ghostVars>>

\* Recorder::get_feature: the reply; a feature is followed by the
\* $feature_flag_called event, sent through record.
GetFeatureReply(c) ==
    /\ cpc[c] = "gf_reply"
    /\ creply[c] # NoReply
    /\ IF creply[c] # ClosedReply /\ creply[c].val.some
       THEN /\ SendEventSignal([type |-> "Event", id |-> nextId,
                                name |-> "$feature_flag_called",
                                properties |-> [feature_flag |-> cdata[c],
                                                feature_flag_response |-> creply[c].val.variant]])
            /\ cres' = [cres EXCEPT ![c] = [op |-> "get_feature",
                                            val |-> creply[c].val.variant]]
       ELSE /\ cres' = [cres EXCEPT ![c] = [op |-> "get_feature", val |-> "none"]]
            /\ UNCHANGED <<collatorQ, nextId, enqueued>>
    /\ creply' = [creply EXCEPT ![c] = NoReply]
    /\ cpc' = [cpc EXCEPT ![c] = "idle"]
    /\ UNCHANGED <<cdata, csub, wsub, built, opsLeft, collatorStatus, col, stored, nextUuid,
                   proxyVars, submitterVars, waitPc, inCall, storeFails, txn, storageVars, httpVars, offered, submitFailed, submitted, cancelled,
                   proxyErr, lastFresh, idPairs, answeredInFlight>>

\* Recorder::subscribe_to_feature_changes: send Subscribe; None if that fails.
subscribe_to_feature_changes(c) ==
    /\ CanStart(c)
    /\ ~csub[c].live
    /\ opsLeft' = opsLeft - 1
    /\ SendToProxy([type |-> "Subscribe", of |-> "subscribe", tx |-> c])
    /\ cpc' = [cpc EXCEPT ![c] = IF proxyStatus # "running" THEN "idle" ELSE "sub_reply"]
    /\ UNCHANGED <<cdata, creply, csub, wsub, cres, built, collatorVars, proxyStatus, checkin,
                   checkinQ, cwPc, cwJob, proxyReply, refreshTicks, submitterVars, waitPc, inCall, storeFails, txn, storageVars, httpVars,
                   ghostVars>>

\* subscribe_to_feature_changes: the receiver arrives, or the reply is closed.
SubscribeReply(c) ==
    /\ cpc[c] = "sub_reply"
    /\ creply[c] # NoReply
    /\ creply' = [creply EXCEPT ![c] = NoReply]
    /\ cpc' = [cpc EXCEPT ![c] = "idle"]
    /\ UNCHANGED <<cdata, csub, wsub, cres, built, opsLeft, collatorVars, proxyVars,
                   submitterVars, waitPc, inCall, storeFails, txn, storageVars, httpVars, ghostVars>>

\* How wait_for_checkin returns: its local subscription is dropped.
WfcReturn(c, result) ==
    /\ cres' = [cres EXCEPT ![c] = [op |-> "wait_for_checkin", val |-> result]]
    /\ cpc' = [cpc EXCEPT ![c] = "idle"]
    /\ wsub' = [wsub EXCEPT ![c] = NoSub]
    /\ creply' = [creply EXCEPT ![c] = NoReply]

\* Recorder::wait_for_checkin: it subscribes first.
wait_for_checkin(c) ==
    /\ CanStart(c)
    /\ opsLeft' = opsLeft - 1
    /\ SendToProxy([type |-> "Subscribe", of |-> "wait_for_checkin", tx |-> c])
    /\ IF proxyStatus # "running"
       THEN WfcReturn(c, "SendToConfigurationProxy")
       ELSE /\ cpc' = [cpc EXCEPT ![c] = "wfc_sub"]
            /\ UNCHANGED <<cres, wsub, creply>>
    /\ UNCHANGED <<cdata, csub, built, collatorVars, proxyStatus, checkin, checkinQ, cwPc,
                   cwJob, proxyReply, refreshTicks, submitterVars, waitPc, inCall, storeFails, txn, storageVars, httpVars, ghostVars>>

\* wait_for_checkin: the subscription (or None) is in hand; QueryIfCheckedIn is sent.
QueryIfCheckedIn(c) ==
    /\ cpc[c] = "wfc_sub"
    /\ creply[c] # NoReply
    /\ SendToProxy([type |-> "QueryIfCheckedIn", of |-> "wait_for_checkin", tx |-> c])
    /\ IF proxyStatus # "running"
       THEN WfcReturn(c, "SendToConfigurationProxy")
       ELSE /\ cpc' = [cpc EXCEPT ![c] = "wfc_query"]
            /\ creply' = [creply EXCEPT ![c] = NoReply]
            /\ UNCHANGED <<cres, wsub>>
    /\ UNCHANGED <<cdata, csub, built, opsLeft, collatorVars, proxyStatus, checkin, checkinQ,
                   cwPc, cwJob, proxyReply, refreshTicks, submitterVars, waitPc, inCall, storeFails, txn, storageVars, httpVars, ghostVars>>

\* wait_for_checkin: the status arrives.
CheckinStatusReply(c) ==
    /\ cpc[c] = "wfc_query"
    /\ creply[c] # NoReply
    /\ IF creply[c] = ClosedReply
       THEN WfcReturn(c, "Response")
       ELSE IF creply[c].val = "CheckedIn"
            THEN WfcReturn(c, "Ok")
            ELSE IF ~wsub[c].live
                 THEN WfcReturn(c, "SubscribeFailed")
                 ELSE /\ cpc' = [cpc EXCEPT ![c] = "wfc_recv"]
                      /\ creply' = [creply EXCEPT ![c] = NoReply]
                      /\ UNCHANGED <<cres, wsub>>
    /\ UNCHANGED <<cdata, csub, built, opsLeft, collatorVars, proxyVars, submitterVars,
                   waitPc, inCall, storeFails, txn, storageVars, httpVars, ghostVars>>

\* broadcast::Receiver::recv on a channel of capacity 1: the value, Lagged when
\* more than one was sent since the last read, Closed when the sender is gone
\* and nothing is left; otherwise it waits.
BroadcastRecv(sub, senderAlive) ==
    IF sub.unseen = 1 THEN "Ok"
    ELSE IF sub.unseen > 1 THEN "Lagged"
    ELSE IF ~senderAlive THEN "Closed"
    ELSE "pending"

\* wait_for_checkin: subscription.recv() returns.
SubscriptionRecv(c) ==
    /\ cpc[c] = "wfc_recv"
    /\ BroadcastRecv(wsub[c], proxyStatus = "running") # "pending"
    /\ WfcReturn(c, BroadcastRecv(wsub[c], proxyStatus = "running"))
    /\ UNCHANGED <<cdata, csub, built, opsLeft, collatorVars, proxyVars, submitterVars,
                   waitPc, inCall, storeFails, txn, storageVars, httpVars, ghostVars>>

\* The positions at which a call is suspended on a reply or a notification.
Suspended == {"tcr_props", "tcr_reply", "gf_reply", "sub_reply", "wfc_sub", "wfc_query",
              "wfc_recv"}

\* The caller drops the future of its call (a timeout, a select!): the one-shot
\* receiver and the local subscription go with it.
Cancel(c) ==
    /\ built
    /\ cpc[c] \in Suspended
    /\ cpc' = [cpc EXCEPT ![c] = "idle"]
    /\ creply' = [creply EXCEPT ![c] = NoReply]
    /\ wsub' = [wsub EXCEPT ![c] = NoSub]
    /\ csub' = IF cpc[c] = "sub_reply" THEN [csub EXCEPT ![c] = NoSub] ELSE csub
    /\ collatorQ' = DropRx(collatorQ, c)
    /\ proxyQ' = DropRx(proxyQ, c)
    /\ checkinQ' = DropRx(checkinQ, c)
    /\ cwJob' = IF cwJob.tx = c THEN [cwJob EXCEPT !.tx = Dropped] ELSE cwJob
    /\ cancelled' = TRUE
    /\ inCall' = [inCall EXCEPT ![c] = NoCall]
    /\ UNCHANGED <<cdata, cres, built, opsLeft, collatorStatus, col, stored, nextUuid,
                   proxyStatus, checkin, cwPc, proxyReply, refreshTicks, submitterVars,
                   waitPc, storeFails, txn, storageVars, httpVars, nextId, enqueued, offered, submitFailed, submitted, proxyErr, lastFresh, idPairs, answeredInFlight>>

\* The caller drops its Recorder (and the receiver it kept).
DropRecorder(c) ==
    /\ built
    /\ cpc[c] = "idle"
    /\ cpc' = [cpc EXCEPT ![c] = "gone"]
    /\ csub' = [csub EXCEPT ![c] = NoSub]
    /\ UNCHANGED <<cdata, creply, wsub, cres, built, opsLeft, collatorVars, proxyVars,
                   submitterVars, waitPc, inCall, storeFails, txn, storageVars, httpVars, ghostVars>>

\* The calls about the configuration.
ConfigurationCall(c) ==
    \/ trigger_configuration_refresh(c)
    \/ \E key \in FlagKeys : get_feature(c, key)
    \/ subscribe_to_feature_changes(c)
    \/ wait_for_checkin(c)

\* The calls about events and identity.
IdentityCall(c) ==
    \/ record(c)
    \/ set_fact(c)
    \/ flush_now(c)
    \/ \E new \in DistinctIds : identify(c, new)
    \/ alias(c)
    \/ reset(c)
    \/ add_group(c)

\* trigger_configuration_refresh goes on.
RefreshResume(c) ==
    \/ get_session_properties(c)
    \/ SendCheckInNow(c)
    \/ ForwardFeatureFacts(c)

\* get_feature, subscribe_to_feature_changes or wait_for_checkin goes on.
ConfigurationResume(c) ==
    \/ GetFeatureReply(c)
    \/ SubscribeReply(c)
    \/ QueryIfCheckedIn(c)
    \/ CheckinStatusReply(c)
    \/ SubscriptionRecv(c)

\* ------------------------------------------------------------------- Next
\* The Collator's handlers for the signals the configuration calls send.
CollatorConfigurationStep ==
    \/ handle_message_get_session_properties
    \/ handle_message_update_feature_facts
    \/ handle_message_event
    \/ CollatorFinish

\* The pipeline under configuration calls (refresh, get_feature, subscribe,
\* wait_for_checkin), their cancellation, and the drop of the Recorder.
Next ==
    \/ \E c \in Callers : ConfigurationCall(c) \/ RefreshResume(c) \/ ConfigurationResume(c)
                            \/ Cancel(c) \/ DropRecorder(c)
    \/ CollatorConfigurationStep
    \/ IncomingWorkerStep
    \/ CheckinWorkerStep
    \/ SubmitterStep
    \/ WaitStep

Spec == Init /\ [][Next]_vars

TypeOK ==
    /\ \A c \in Callers : cpc[c] \in Suspended \cup {"idle", "gone", "tcr_gsp"}
    /\ collatorStatus \in {"running", "ok", "err"}
    /\ proxyStatus \in {"running", "ok", "err"}
    /\ Len(collatorQ) <= ChanCap /\ Len(proxyQ) <= ChanCap
    /\ Len(checkinQ) <= ChanCap /\ Len(submitQ) <= ChanCap

\* The tasks run whenever they can: the runtime polls a task that is ready.
\* Timers and callers are under no obligation.
FairSpec ==
    /\ Spec
    /\ WF_vars(CollatorConfigurationStep)
    /\ WF_vars(IncomingWorkerStep)
    /\ WF_vars(StartCheckIn \/ GotSessionProperties \/ CheckInReturns)
    /\ WF_vars(SubmitterTop \/ SubmitterEvent \/ SubmitterFlushNow \/ SubmitterNone)
    /\ WF_vars(WaitStep)

\* The incoming worker's steps for the one request the identity calls send.
IncomingRefreshStep ==
    \/ ForwardCheckInNow
    \/ IncomingClosed

\* The pipeline under event and identity calls (record, set_fact, flush_now,
\* identify, alias, reset, add_group) and the refresh they trigger, every call
\* being awaited to its end.
NextIdentity ==
    \/ \E c \in Callers : IdentityCall(c) \/ RefreshResume(c) \/ DropRecorder(c)
    \/ CollatorStep
    \/ IncomingRefreshStep
    \/ CheckinWorkerStep
    \/ SubmitterStep
    \/ WaitStep

SpecIdentity == Init /\ [][NextIdentity]_vars

\* The Collator's handlers for the signals of record, flush_now and the refresh.
HttpCollatorStep ==
    \/ handle_message_get_session_properties
    \/ handle_message_update_feature_facts
    \/ handle_message_event
    \/ handle_message_flush_now

\* The check-in worker over the SrvHttp transport.
HttpCheckinWorkerStep ==
    \/ StartCheckIn
    \/ RefreshTick
    \/ GotSessionProperties
    \/ HttpCheckIn
    \/ HttpCheckInReturns

\* The Submitter over the SrvHttp transport.
HttpSubmitterStep ==
    \/ SubmitterTop
    \/ HttpFlushTick
    \/ SubmitterEvent
    \/ HttpSubmitterFlushNow
    \/ SubmitReturns

\* The pipeline over the SrvHttp transport while the Recorder is in use:
\* record, flush_now, the initial and the periodic refresh, and the requests
\* the Submitter and the ConfigurationProxy make.
NextHttp ==
    \/ \E c \in Callers : record(c) \/ flush_now(c) \/ RefreshResume(c)
    \/ HttpCollatorStep
    \/ ForwardCheckInNow
    \/ HttpCheckinWorkerStep
    \/ HttpSubmitterStep
    \/ \E r \in Requests : perform_request(r)

SpecHttp == Init /\ [][NextHttp]_vars

\* The calls made over the None transport.
NoneCall(c) ==
    \/ record(c)
    \/ flush_now(c)
    \/ trigger_configuration_refresh(c)
    \/ \E key \in FlagKeys : get_feature(c, key)
    \/ wait_for_checkin(c)

\* get_feature or wait_for_checkin goes on.
NoneResume(c) ==
    \/ GetFeatureReply(c)
    \/ QueryIfCheckedIn(c)
    \/ CheckinStatusReply(c)

\* The Collator's handlers for the signals these calls send.
NoneCollatorStep ==
    \/ handle_message_get_session_properties
    \/ handle_message_update_feature_facts
    \/ handle_message_event
    \/ handle_message_flush_now
    \/ CollatorFinish

\* The incoming worker for the requests these calls send.
NoneIncomingWorkerStep ==
    \/ handle_message_query_if_checked_in
    \/ handle_message_get_feature
    \/ handle_message_subscribe
    \/ ForwardCheckInNow
    \/ IncomingClosed

\* The check-in worker over the None transport.
NoneCheckinWorkerStep ==
    \/ StartCheckIn
    \/ RefreshTick
    \/ GotSessionProperties
    \/ NoneCheckInReturns

\* The Submitter over the None transport.
NoneSubmitterStep ==
    \/ SubmitterTop
    \/ NoneFlushTick
    \/ SubmitterEvent
    \/ NoneSubmitterFlushNow
    \/ NoneSubmitterNone

\* The pipeline over the None transport: the calls, their cancellation and
\* the drop of the Recorder.
NextNone ==
    \/ \E c \in Callers : NoneCall(c) \/ RefreshResume(c) \/ NoneResume(c)
                            \/ Cancel(c) \/ DropRecorder(c)
    \/ NoneCollatorStep
    \/ NoneIncomingWorkerStep
    \/ NoneCheckinWorkerStep
    \/ NoneSubmitterStep
    \/ WaitStep

SpecNone == Init /\ [][NextNone]_vars

\* The JsonFile storage on its own: any store, any load.
NextStorage ==
    \/ \E props \in StoredPropertiesSet, ok \in BOOLEAN : store(props, ok)
    \/ load

SpecStorage == Init /\ [][NextStorage]_vars

\* The Collator's handlers for the signals of record, identify and reset.
SeededCollatorStep ==
    \/ handle_message_get_session_properties
    \/ handle_message_update_feature_facts
    \/ handle_message_event
    \/ handle_message_identify
    \/ handle_message_reset

\* record, identify and reset, with the refresh the last two trigger, after a
\* construction with supplied anonymous ids; the Submitter only buffers.
NextSeeded ==
    \/ \E c \in Callers : \/ record(c)
                          \/ \E new \in DistinctIds : identify(c, new)
                          \/ reset(c)
                          \/ RefreshResume(c)
    \/ SeededCollatorStep
    \/ ForwardCheckInNow
    \/ StartCheckIn
    \/ CheckInReturns
    \/ SubmitterTop
    \/ SubmitterEvent

SpecSeeded == InitSeeded /\ [][NextSeeded]_vars

\* Recorder::in_configuration_txn is entered: `rec` is a clone of the Recorder
\* with auto_refresh_config off, and the closure is started on `self`.
in_configuration_txn(c) ==
    /\ built
    /\ cpc[c] = "idle"
    /\ txn[c].state = "none"
    /\ txn' = [txn EXCEPT ![c] = [state |-> "closure", inClosure |-> 0, afterClosure |-> 0]]
    /\ UNCHANGED <<callerVars, collatorVars, proxyVars, submitterVars, waitPc, inCall, storeFails, ghostVars,
                   httpVars, storageVars>>

\* A call the closure makes on the Recorder it was given, which is `self`:
\* its auto_refresh_config is the caller's own, not that of `rec`.
TxnClosureCall(c) ==
    /\ txn[c].state = "closure"
    /\ \/ \E new \in DistinctIds : identify(c, new)
       \/ add_group(c)
       \/ alias(c)
       \/ reset(c)

\* The closure has returned: auto_refresh_config of `rec` is set again and
\* rec.trigger_configuration_refresh is entered.
TxnClosureReturns(c) ==
    /\ txn[c].state = "closure"
    /\ cpc[c] = "idle"
    /\ txn' = [txn EXCEPT ![c].state = "refresh"]
    /\ cpc' = [cpc EXCEPT ![c] = "tcr_gsp"]
    /\ UNCHANGED <<cdata, creply, csub, wsub, cres, built, opsLeft, collatorVars, proxyVars,
                   submitterVars, waitPc, inCall, storeFails, ghostVars, httpVars, storageVars>>

\* in_configuration_txn returns the closure's value.
TxnReturns(c) ==
    /\ txn[c].state = "refresh"
    /\ cpc[c] = "idle"
    /\ txn' = [txn EXCEPT ![c].state = "done"]
    /\ UNCHANGED <<callerVars, collatorVars, proxyVars, submitterVars, waitPc, inCall, storeFails, ghostVars,
                   httpVars, storageVars>>

\* The Collator's handlers for the signals of identify, add_group, alias,
\* reset and the refresh.
TxnCollatorStep ==
    \/ handle_message_get_session_properties
    \/ handle_message_update_feature_facts
    \/ handle_message_identify
    \/ handle_message_add_group
    \/ handle_message_alias
    \/ handle_message_reset

\* Callers run in_configuration_txn with closures that call identify,
\* add_group, alias and reset; the Submitter only buffers.
NextTxn ==
    \/ \E c \in Callers : \/ in_configuration_txn(c)
                          \/ TxnClosureCall(c)
                          \/ TxnClosureReturns(c)
                          \/ TxnReturns(c)
                          \/ RefreshResume(c)
    \/ TxnCollatorStep
    \/ ForwardCheckInNow
    \/ StartCheckIn
    \/ CheckInReturns
    \/ SubmitterTop
    \/ SubmitterEvent

SpecTxn == Init /\ [][NextTxn]_vars

\* The storage stops working (the state directory becomes unwritable, the
\* disk fills up), or works again.
StorageBreaks ==
    /\ ~storeFails
    /\ storeFails' = TRUE
    /\ UNCHANGED <<callerVars, collatorVars, proxyVars, submitterVars, waitPc, inCall, ghostVars,
                   httpVars, storageVars, txn>>

StorageRecovers ==
    /\ storeFails
    /\ storeFails' = FALSE
    /\ UNCHANGED <<callerVars, collatorVars, proxyVars, submitterVars, waitPc, inCall, ghostVars,
                   httpVars, storageVars, txn>>

\* The Collator's handlers for the signals of identify, add_group, reset and
\* the refresh.
PersistCollatorStep ==
    \/ handle_message_get_session_properties
    \/ handle_message_update_feature_facts
    \/ handle_message_identify
    \/ handle_message_add_group
    \/ handle_message_reset

\* identify, add_group and reset over a storage that may fail at any time;
\* the Submitter only buffers.
NextPersist ==
    \/ \E c \in Callers : \/ \E new \in DistinctIds : identify(c, new)
                          \/ add_group(c)
                          \/ reset(c)
                          \/ RefreshResume(c)
    \/ StorageBreaks
    \/ StorageRecovers
    \/ PersistCollatorStep
    \/ ForwardCheckInNow
    \/ StartCheckIn
    \/ CheckInReturns
    \/ SubmitterTop
    \/ SubmitterEvent

SpecPersist == Init /\ [][NextPersist]_vars

\* Recorder::clone: the holder of a Recorder hands a clone to another task.
clone(c, d) ==
    /\ built
    /\ cpc[c] \notin {"gone"}
    /\ cpc[d] = "gone"
    /\ cpc' = [cpc EXCEPT ![d] = "idle"]
    /\ UNCHANGED <<cdata, creply, csub, wsub, cres, built, opsLeft, collatorVars, proxyVars,
                   submitterVars, waitPc, ghostVars, httpVars, storageVars, txn, storeFails,
                   inCall>>

\* The Collator's handlers for the signals of the refresh.
RefreshCollatorStep ==
    \/ handle_message_get_session_properties
    \/ handle_message_update_feature_facts

\* Recorder clones held by different tasks run trigger_configuration_refresh
\* concurrently.
NextClones ==
    \/ \E c, d \in Callers : clone(c, d)
    \/ \E c \in Callers : trigger_configuration_refresh(c) \/ RefreshResume(c)
    \/ RefreshCollatorStep
    \/ ForwardCheckInNow
    \/ StartCheckIn
    \/ CheckInReturns

SpecClones == Init /\ [][NextClones]_vars

\* ----------------------------------------------------------------- claims
\* C1: graceful shutdown loses no events: when no caller has cancelled a call
\* and every transport.submit succeeded, every event signal the Collator's
\* channel accepted before the last Recorder was dropped has been passed to
\* transport.submit by the time the Submitter has exited.
C1_NoEventLost ==
    (subPc = "done" /\ ~RecordersAlive /\ ~cancelled /\ ~submitFailed)
        => enqueued \subseteq offered

\* C2: after the last Recorder is dropped the ConfigurationProxy, the Collator
\* and the Submitter all terminate and Worker::wait returns, whether or not a
\* task ended with an error.
C2_ShutdownTerminates ==
    (~RecordersAlive) ~> (/\ proxyStatus # "running"
                          /\ collatorStatus # "running"
                          /\ subPc = "done"
                          /\ waitPc = "returned")

\* Worker::wait has returned although a task ended with an error.
C2_Witness ==
    /\ ~RecordersAlive
    /\ waitPc = "returned"
    /\ (proxyStatus = "err" \/ collatorStatus = "err")

\* C3: a trigger_configuration_refresh dropped by its caller never ends
\* ConfigurationProxy::execute, so that later wait_for_checkin and get_feature
\* calls are still served.
C3_CancelledRefreshKeepsProxy == proxyErr # "refresh"

\* C4: the ConfigurationProxy never stops because a reply to QueryIfCheckedIn,
\* GetFeature, Subscribe or CheckInNow could not be delivered.
C4_NoExitOnFailedReply ==
    proxyStatus = "err" => proxyErr \notin {"refresh", "get_feature", "subscribe",
                                            "wait_for_checkin"}

\* C5: the Collator does not end with an error when the requester of
\* GetSessionProperties has dropped its receiver; it goes on to its final FlushNow.
C5_CollatorSurvivesDroppedReply == collatorStatus # "err"

\* C6: a wait_for_checkin that returns while the ConfigurationProxy is running
\* returns Ok, however the refreshes interleave with it.
C6_WaitForCheckinReturnsOk ==
    \A c \in Callers :
        (proxyStatus = "running" /\ cres[c].op = "wait_for_checkin") => cres[c].val = "Ok"

\* C7: dropping a wait_for_checkin never closes the broadcast for a subscriber
\* that holds a receiver while its Recorder remains.
C7_DroppedWaitKeepsBroadcast ==
    ~(proxyErr = "wait_for_checkin" /\ \E c \in Callers : csub[c].live /\ cpc[c] # "gone")

\* The CheckInNow of caller c has been received by the ConfigurationProxy.
Accepted(c) ==
    \/ \E i \in 1..Len(checkinQ) : checkinQ[i].tx = c
    \/ cwPc = "in_transport" /\ cwJob.tx = c

\* C8: a CheckInNow the ConfigurationProxy has accepted, whose requester keeps
\* waiting, never has its reply channel closed without a reply.
C8_AcceptedCheckInNowReplied ==
    [][\A c \in Callers :
          (cpc[c] = "tcr_reply" /\ Accepted(c) /\ cpc'[c] = "tcr_reply")
              => creply'[c] # ClosedReply]_vars

C10_EventDistinctId ==
    [][/\ (Len(submitQ') = Len(submitQ) + 1 /\ submitQ'[Len(submitQ')].type = "Event") =>
            LET e == submitQ'[Len(submitQ')].event IN
                /\ e.distinct_id = IF col'.distinct_id # NoneId THEN col'.distinct_id
                                   ELSE col'.anon_distinct_id
                /\ e.name = "$identify" => e.distinct_id = ColHead.new
       /\ col'.distinct_id # col.distinct_id =>
            (collatorQ # <<>> /\ ColHead.type \in {"Identify", "Reset"})]_vars

\* An event recorded after an Identify carries the identified id, and the
\* $identify event before it does too.
C10_Witness ==
    \E i, j \in 1..Len(events) :
        /\ i < j
        /\ events[i].name = "$identify"
        /\ events[i].distinct_id \in DistinctIds
        /\ events[j].name = "e"
        /\ events[j].distinct_id = events[i].distinct_id

\* The anonymous ids generated so far.
EarlierAnonIds == {FreshUuid(k) : k \in 0..(nextUuid - 1)}

\* C11: an Identify handled while a distinct_id is set replaces the anonymous id
\* with one never used before, an Identify handled while none is set leaves it
\* as it is, and no anonymous id is ever attached to events of two different
\* explicit distinct_ids.
C11_AnonIdNotShared ==
    /\ [][handle_message_identify =>
            IF col.distinct_id # NoneId
            THEN col'.anon_distinct_id \notin EarlierAnonIds
            ELSE col'.anon_distinct_id = col.anon_distinct_id]_vars
    /\ [](\A p, q \in idPairs : p[2] = q[2] => p[1] = q[1])

\* Events were built under two different explicit distinct_ids.
C11_Witness == \E p, q \in idPairs : p[1] # q[1]

\* C12: Reset clears the distinct_id, installs an anonymous id never used before,
\* forwards nothing, and leaves device_id, session_id, facts, feature-facts and
\* groups alone; the device_id never changes, and an event built while no
\* distinct_id is set carries the current anonymous id as its distinct_id and the
\* Collator's device_id.
C12_ResetRotatesIdentity ==
    [][/\ handle_message_reset =>
            /\ col'.distinct_id = NoneId
            /\ col'.anon_distinct_id \notin EarlierAnonIds
            /\ submitQ' = submitQ
            /\ col'.device_id = col.device_id
            /\ col'.session_id = col.session_id
            /\ col'.facts = col.facts
            /\ col'.featurefacts = col.featurefacts
            /\ col'.groups = col.groups
       /\ col'.device_id = col.device_id
       /\ (Len(submitQ') = Len(submitQ) + 1 /\ submitQ'[Len(submitQ')].type = "Event"
             /\ col'.distinct_id = NoneId) =>
            LET e == submitQ'[Len(submitQ')].event IN
                /\ e.distinct_id = col'.anon_distinct_id
                /\ e.anon_distinct_id = col'.anon_distinct_id
                /\ e.device_id = col'.device_id]_vars

\* An event recorded after a Reset: its distinct_id is the regenerated anonymous
\* id and its device_id is the one the Collator started with.
C12_Witness ==
    \E i \in 1..Len(events) :
        /\ events[i].name = "e"
        /\ events[i].anon_distinct_id # FreshUuid(0)
        /\ events[i].distinct_id = events[i].anon_distinct_id
        /\ events[i].device_id = "DIDS-DEV-0"

\* The ids of the event-producing signals waiting in the Collator's channel.
HasId(m) == "id" \in DOMAIN m
SignalIds ==
    LET q == SelectSeq(collatorQ, HasId) IN [i \in 1..Len(q) |-> q[i].id]

\* The events the Collator has emitted and the Submitter still holds: its
\* buffer, then its channel.
IsEvent(m) == m.type = "Event"
EmittedEvents ==
    LET q == SelectSeq(submitQ, IsEvent) IN events \o [i \in 1..Len(q) |-> q[i].event]

Increasing(ids) == \A i, j \in 1..Len(ids) : i < j => ids[i] < ids[j]

\* C13: the signals of the caller wait in the Collator's channel in call order
\* and their events are held by the Submitter in call order; when the Collator
\* handles an Event every signal sent after it is still waiting, so the event
\* carries the identity as it was before any later Identify.
C13_SignalsInCallOrder ==
    /\ [](Increasing(SignalIds))
    /\ [](Increasing([i \in 1..Len(EmittedEvents) |-> EmittedEvents[i].src]))
    /\ [][handle_message_event =>
            LET e == submitQ'[Len(submitQ')].event IN
                /\ e.src = ColHead.id
                /\ e.distinct_id = IF col.distinct_id # NoneId THEN col.distinct_id
                                   ELSE col.anon_distinct_id
                /\ \A i \in 1..Len(collatorQ') :
                      HasId(collatorQ'[i]) => collatorQ'[i].id > e.src]_vars

\* record(e) then identify(d): e is buffered first, under the old identity, and
\* the $identify event after it under d.
C13_Witness ==
    /\ Len(events) = 2
    /\ events[1].name = "e" /\ events[1].src = 1 /\ events[1].distinct_id = FreshUuid(0)
    /\ events[2].name = "$identify" /\ events[2].src = 2
    /\ events[2].distinct_id \in DistinctIds

\* C14: every emitted event carries the facts, groups and feature-facts the
\* Collator holds when it handles the signal; a Fact signal sets its key and
\* nothing else does; and the channel keeps the order of the signals, so the
\* Fact of a set_fact is handled before the Event of the record that follows it.
C14_EventCarriesCurrentFacts ==
    [][/\ (Len(submitQ') = Len(submitQ) + 1 /\ submitQ'[Len(submitQ')].type = "Event") =>
            LET e == submitQ'[Len(submitQ')].event IN
                /\ e.facts = col'.facts
                /\ e.groups = col'.groups
                /\ e.featurefacts = col'.featurefacts
       /\ handle_message_fact =>
            /\ ColHead.key \in DOMAIN col'.facts
            /\ col'.facts[ColHead.key] = ColHead.value
       /\ \A k \in DOMAIN col.facts :
            /\ k \in DOMAIN col'.facts
            /\ col'.facts[k] # col.facts[k] => (handle_message_fact /\ ColHead.key = k)
       /\ \/ Len(collatorQ') = Len(collatorQ)
          \/ collatorQ' = <<>>
          \/ collatorQ # <<>> /\ collatorQ' = Tail(collatorQ)
          \/ /\ Len(collatorQ') = Len(collatorQ) + 1
             /\ SubSeq(collatorQ', 1, Len(collatorQ)) = collatorQ]_vars

\* set_fact then record: the event of the record carries the fact.
C14_Witness ==
    \E i \in 1..Len(events) :
        /\ events[i].name = "e"
        /\ "f" \in DOMAIN events[i].facts
        /\ events[i].facts["f"] = "v"

\* The event signals that have reached the Submitter: buffered or passed to
\* transport.submit.
ReachedSubmitter == offered \cup {events[i].src : i \in 1..Len(events)}

\* C15: every flag lookup that returned a value has its $feature_flag_called
\* event reach the Submitter: once the Submitter has stopped, the event of
\* every such lookup is in its buffer or was passed to transport.submit.
C15_FlagEventReachesSubmitter ==
    subPc = "done" => \A id \in 1..(nextId - 1) : id \in ReachedSubmitter

\* The events in the Submitter's buffer.
Buffered == {events[i].src : i \in 1..Len(events)}

\* The Submitter calls try_flush with a non-empty buffer.
FlushAttempt ==
    /\ events # <<>>
    /\ FlushTick \/ SubmitterFlushNow \/ SubmitterNone

\* C16: a flush passes the whole buffer to transport.submit; when that fails
\* the buffer is unchanged and the Submitter goes on as after a success (back
\* to the top of its loop after a tick or a FlushNow); when it succeeds the
\* buffer is emptied and none of the batch was in a successful batch before.
\* The buffer otherwise only grows at its end, so the arrival order is kept.
C16_FailedSubmitKeepsBuffer ==
    /\ [][/\ FlushAttempt =>
                /\ offered' = offered \cup Buffered
                /\ submitted' = submitted => events' = events
                /\ submitted' # submitted =>
                      /\ events' = <<>>
                      /\ submitted' = submitted \cup Buffered
                /\ (FlushTick \/ SubmitterFlushNow) => subPc' = "top"
          /\ events' # events =>
                \/ events' = <<>> /\ FlushAttempt
                \/ /\ SubmitterEvent
                   /\ events' = Append(events, submitQ[1].event)]_vars
    /\ [](Buffered \cap submitted = {})
    /\ [](\A i, j \in 1..Len(events) : i < j => events[i].src < events[j].src)

\* The one event recorded was offered in a failed submit, kept, and then
\* accepted in a later batch.
C16_Witness ==
    /\ submitFailed
    /\ nextId = 2
    /\ submitted = {1}
    /\ events = <<>>

\* C17: the Submitter returns only with an empty buffer or through the arm of
\* its select! where recv returned None (the channel closed and drained),
\* which calls try_flush before the return.
C17_FinalFlushOnShutdown ==
    [][(subPc # "done" /\ subPc' = "done") => (events' = <<>> \/ SubmitterNone)]_vars

\* Request r has just been answered with `answer` for algorithm `algo`.
Answered(r, algo, answer) ==
    /\ reqs[r].pc = "sending"
    /\ Len(reqs'[r].attempts) = Len(reqs[r].attempts) + 1
    /\ reqs'[r].attempts[Len(reqs'[r].attempts)] = [algo |-> algo, answer |-> answer]

\* C18: a 415 for a request sent with zstd removes zstd from the cached
\* server options and the same perform_request goes on to one attempt with
\* identity; a request started while zstd is not in the cached options tries
\* identity only; and zstd comes back only when a check-in succeeds and its
\* document's server options replace the cached ones.
C18_CompressionFallback ==
    /\ [][\A r \in Requests :
            /\ Answered(r, "zstd", "415") =>
                  /\ ~server_options'.zstd
                  /\ reqs'[r].pc = "sending"
                  /\ reqs'[r].algos = <<"identity">>
            /\ (reqs[r].pc = "idle" /\ reqs'[r].pc = "sending") =>
                  /\ reqs'[r].attempts = <<>>
                  /\ reqs'[r].algos = IF server_options.zstd THEN <<"zstd", "identity">>
                                      ELSE <<"identity">>]_vars
    /\ [][(~server_options.zstd /\ server_options'.zstd) =>
            /\ HttpCheckInReturns
            /\ lastFresh' # NoCheckin
            /\ server_options' = lastFresh'.server_options]_vars
    /\ [](\A r \in Requests :
            (reqs[r].attempts # <<>> /\ reqs[r].attempts[1] = [algo |-> "zstd", answer |-> "415"]) =>
                IF reqs[r].pc = "done"
                THEN Len(reqs[r].attempts) = 2 /\ reqs[r].attempts[2].algo = "identity"
                ELSE reqs[r].algos = <<"identity">>)

\* After a check-in whose document lists zstd, a submit was answered 415 for
\* zstd (nothing else removes it), and the next check-in request has started
\* with identity only.
C18_Witness ==
    /\ "server_options" \in DOMAIN lastFresh
    /\ lastFresh.server_options.zstd
    /\ ~server_options.zstd
    /\ reqs["checkin"].pc = "sending"
    /\ reqs["checkin"].attempts = <<>>
    /\ reqs["checkin"].algos = <<"identity">>

\* The algorithms of request r: those tried so far, then those still to try.
Algorithms(r) == [i \in 1..Len(reqs[r].attempts) |-> reqs[r].attempts[i].algo] \o reqs[r].algos

\* C19: every request has identity as its last algorithm and makes at most two
\* attempts; it ends with NoCompressionMode exactly when every attempt,
\* the one with identity included, was answered 415; an answer changes the
\* cached set only by removing the algorithm a 415 rejected; and a submit that
\* fails with NoCompressionMode leaves the Submitter's buffer as it was, with
\* the Submitter back at the top of its loop.
C19_IdentityLastAndRetained ==
    /\ [](\A r \in Requests : reqs[r].pc # "idle" =>
            /\ Len(Algorithms(r)) \in 1..2
            /\ Algorithms(r)[Len(Algorithms(r))] = "identity"
            /\ reqs[r].pc = "done" =>
                  (reqs[r].result = "NoCompressionMode"
                      <=> /\ \A i \in 1..Len(reqs[r].attempts) : reqs[r].attempts[i].answer = "415"
                          /\ \E i \in 1..Len(reqs[r].attempts) : reqs[r].attempts[i].algo = "identity"))
    /\ [][\A r \in Requests : \A algo \in {"zstd", "identity"} : \A answer \in Answers :
            Answered(r, algo, answer) =>
                server_options' = IF answer = "415" /\ algo = "zstd"
                                  THEN [server_options EXCEPT !.zstd = FALSE]
                                  ELSE server_options]_vars
    /\ [][(SubmitReturns /\ reqs["submit"].result = "NoCompressionMode") =>
            /\ events # <<>>
            /\ events' = events
            /\ subPc' = "top"]_vars

\* A submit has ended with NoCompressionMode after zstd and identity were both
\* answered 415, with its batch still in the buffer.
C19_Witness ==
    /\ reqs["submit"].pc = "done"
    /\ reqs["submit"].result = "NoCompressionMode"
    /\ Len(reqs["submit"].attempts) = 2
    /\ events # <<>>

\* C20: with the None transport every check-in returns the check-in without
\* flags, so that the cache is populated once Worker::new has returned, every
\* wait_for_checkin that returns returns Ok, every get_feature returns nothing,
\* and no submit fails.
C20_NoneTransport ==
    /\ lastFresh \in {[none |-> FALSE], CheckinB}
    /\ built => checkin = CheckinB
    /\ ~submitFailed
    /\ \A c \in Callers : cres[c].op = "get_feature" => cres[c].val = "none"
    /\ \A c \in Callers : cres[c].op = "wait_for_checkin" => cres[c].val = "Ok"

\* C21: JsonFile round-trips: a load that follows a successful store(p)
\* returns a value equal to p.
C21_StorageRoundTrips ==
    loadedProps.kind = "ok" => loadedProps.value = loadedProps.of

\* C22: the $anon_distinct_id of every emitted event is non-empty, whatever
\* anonymous ids were supplied at construction and whatever identify and
\* reset calls followed.
C22_AnonIdNonEmpty ==
    \A i \in 1..Len(EmittedEvents) : EmittedEvents[i].anon_distinct_id # ""

\* C23: the operations inside in_configuration_txn do not each trigger a
\* refresh: whatever identify, add_group, alias and reset calls the closure
\* makes, no CheckInNow is sent while the closure runs, and when
\* in_configuration_txn has returned exactly one has been sent, after the
\* closure completed.
C23_OneRefreshPerTxn ==
    \A c \in Callers :
        /\ txn[c].inClosure = 0
        /\ txn[c].state = "done" => txn[c].afterClosure = 1

\* C24: while a Recorder exists neither the ConfigurationProxy nor the
\* Collator has terminated, whatever the callers do (cancelling included),
\* and the Submitter has not terminated while the Collator is running.
C24_TasksOutliveRecorders ==
    /\ RecordersAlive => (proxyStatus = "running" /\ collatorStatus = "running")
    /\ collatorStatus = "running" => subPc # "done"

\* C25: after the last Recorder is dropped the tasks terminate in a strict
\* order: the Collator has exited when the ConfigurationProxy exits, and both
\* have exited when the Submitter exits.
C25_ShutdownOrder ==
    [][/\ (~RecordersAlive /\ proxyStatus = "running" /\ proxyStatus' # "running")
            => collatorStatus # "running"
       /\ (~RecordersAlive /\ subPc # "done" /\ subPc' = "done")
            => (collatorStatus # "running" /\ proxyStatus # "running")]_vars

\* C26: the closure of the incoming channel alone never cancels a refresh:
\* when the ConfigurationProxy exits because its incoming channel closed, no
\* transport.checkin is in flight and no CheckInNow is left in the internal
\* refresh channel.
C26_ClosureKeepsRefresh ==
    [][IncomingClosed => (cwPc # "in_transport" /\ checkinQ = <<>>)]_vars

\* C27: a change notification is broadcast exactly when a refresh replaces
\* the cache: a refresh whose check-in succeeded and differs from the cached
\* one replaces the cache and broadcasts once, even if its requester has gone
\* away; a refresh whose check-in failed or equals the cached one replaces
\* nothing and broadcasts nothing.
C27_BroadcastIffCacheReplaced ==
    [][CheckInReturns =>
        IF lastFresh' # NoCheckin /\ lastFresh' # checkin
        THEN checkin' = lastFresh' /\ csub' = Notify(csub) /\ wsub' = Notify(wsub)
        ELSE checkin' = checkin /\ csub' = csub /\ wsub' = wsub]_vars

\* The answer of the incoming worker to the request at the head of its channel.
AnswerOf(cache) ==
    IF PxHead.type = "GetFeature" THEN FeatureOf(cache, PxHead.name)
    ELSE IF PxHead.type = "QueryIfCheckedIn" THEN CheckinStatusOf(cache)
    ELSE "subscribed"

\* The incoming worker handles a GetFeature, QueryIfCheckedIn or Subscribe.
AnswerStep ==
    \/ handle_message_get_feature
    \/ handle_message_query_if_checked_in
    \/ handle_message_subscribe

C29_CollatorEndsWithFlushNow ==
    [][(collatorStatus = "running" /\ collatorStatus' # "running")
        => /\ collatorQ = <<>>
           /\ submitQ' = Append(submitQ, [type |-> "FlushNow"])]_vars

\* C30: persistence is best-effort: when storage.store fails during Identify,
\* AddGroup or Reset the identity change still takes effect in memory and the
\* Collator keeps running, and for Identify the $identify event is still
\* emitted with the new distinct_id.
C30_PersistenceBestEffort ==
    [][(storeFails /\ (handle_message_identify \/ handle_message_add_group
                         \/ handle_message_reset))
        => /\ collatorStatus' = "running"
           /\ collatorQ' = Tail(collatorQ)
           /\ ColHead.type = "Identify"
                => /\ col'.distinct_id = ColHead.new
                   /\ submitQ' # <<>>
                   /\ submitQ'[Len(submitQ')].type = "Event"
                   /\ submitQ'[Len(submitQ')].event.name = "$identify"
                   /\ submitQ'[Len(submitQ')].event.distinct_id = ColHead.new
           /\ ColHead.type = "AddGroup"
                => /\ ColHead.group_name \in DOMAIN col'.groups
                   /\ col'.groups[ColHead.group_name] = ColHead.group_member_id
           /\ ColHead.type = "Reset"
                => /\ col'.distinct_id = NoneId
                   /\ col'.anon_distinct_id # col.anon_distinct_id]_vars

\* An Identify whose store failed has taken effect: nothing was ever stored,
\* the Collator runs under the new distinct_id and its $identify event is on
\* its way.
C30_Witness ==
    /\ storeFails
    /\ stored = [none |-> TRUE]
    /\ collatorStatus = "running"
    /\ col.distinct_id \in DistinctIds
    /\ \E i \in 1..Len(EmittedEvents) :
          /\ EmittedEvents[i].name = "$identify"
          /\ EmittedEvents[i].distinct_id = col.distinct_id

\* The Collator handles an Identify, an AddGroup or a Reset.
IdentityHandlerStep ==
    \/ handle_message_identify
    \/ handle_message_add_group
    \/ handle_message_reset

\* C31: after the Collator has handled Identify, AddGroup or Reset with a
\* successful store, the stored distinct_id, anonymous_distinct_id, device_id
\* and groups are the Collator's in-memory ones; with a store that always
\* succeeds this stays so after any sequence of signals containing one of the
\* three.
C31_StoredMatchesMemory ==
    /\ [][(IdentityHandlerStep /\ ~storeFails)
            => /\ stored'.distinct_id = col'.distinct_id
               /\ stored'.anonymous_distinct_id = col'.anon_distinct_id
               /\ stored'.device_id = col'.device_id
               /\ stored'.groups = col'.groups]_vars
    /\ []((~storeFails /\ stored # [none |-> TRUE]) => stored = StoredOf(col))

\* An Identify and an AddGroup were handled and stored, and the Collator has
\* handled the UpdateFeatureFacts of a refresh as well.
C31_Witness ==
    /\ stored # [none |-> TRUE]
    /\ stored.distinct_id \in DistinctIds
    /\ DOMAIN stored.groups # {}
    /\ col.featurefacts # DefaultFeatureFacts

\* The CheckInNow the caller's step has just put in the ConfigurationProxy's channel.
SentCheckInNow == proxyQ'[Len(proxyQ')]

\* C32: each identify, alias, reset or add_group sends its signal and then
\* triggers exactly one CheckInNow, whose session properties were read from
\* the Collator after it handled that signal: the check-in of identify(d)
\* carries distinct_id = d, that of add_group(k, m) carries groups[k] = m, and
\* that of reset carries no identified id.
C32_RefreshSeesOwnSignal ==
    [][\A c \in Callers :
        /\ (SendCheckInNow(c) /\ inCall[c].op # "none" /\ proxyStatus = "running")
             => /\ Len(proxyQ') = Len(proxyQ) + 1
                /\ SentCheckInNow.type = "CheckInNow"
                /\ SentCheckInNow.props.present
                /\ inCall[c].op = "identify"
                     => SentCheckInNow.props.distinct_id = inCall[c].arg
                /\ inCall[c].op = "add_group"
                     => /\ "g" \in DOMAIN SentCheckInNow.props.groups
                        /\ SentCheckInNow.props.groups["g"] = "m"
                /\ inCall[c].op = "reset"
                     => SentCheckInNow.props.distinct_id = SentCheckInNow.props.anon
        /\ (inCall[c].op # "none" /\ inCall'[c].op = "none" /\ proxyStatus = "running")
             => inCall[c].sent = 1]_vars

\* The refresh of an identify(d2) that followed an identify(d1) has sent its
\* CheckInNow.
C32_Witness ==
    \E c \in Callers :
        /\ inCall[c] = [op |-> "identify", arg |-> "d2", sent |-> 1]
        /\ \E i \in 1..Len(EmittedEvents) : EmittedEvents[i].distinct_id = "d1"

\* No refresh is under way anywhere: no caller is in a call, nothing waits
\* in the ConfigurationProxy's channels, no check-in is running and no
\* UpdateFeatureFacts waits in the Collator's channel.
RefreshesCompleted ==
    /\ built
    /\ \A c \in Callers : cpc[c] \in {"idle", "gone"}
    /\ proxyQ = <<>> /\ checkinQ = <<>> /\ cwPc = "idle"
    /\ \A i \in 1..Len(collatorQ) : collatorQ[i].type # "UpdateFeatureFacts"

\* C33: after every successful refresh, triggered by a Recorder or by the
\* timer, the feature-facts of the new cache are forwarded to the Collator:
\* once the refreshes have completed, the Collator builds its events with the
\* feature-facts derived from the cache.
C33_FeatureFactsFollowCache ==
    (RefreshesCompleted /\ collatorStatus = "running" /\ proxyStatus = "running")
        => col.featurefacts = FeatureFactsOf(checkin)

\* C34: when several Recorder clones run trigger_configuration_refresh
\* concurrently no stale reply is applied after a newer one: once all of them
\* have completed, the Collator's feature-facts are those derived from the
\* ConfigurationProxy's cache.
C34_NoStaleFeatureFacts ==
    (RefreshesCompleted /\ collatorQ = <<>>) => col.featurefacts = FeatureFactsOf(checkin)

\* The last check-in succeeded and its response omits zstd.
LastCheckInOmitsZstd ==
    /\ "server_options" \in DOMAIN lastFresh
    /\ ~lastFresh.server_options.zstd

\* C35: after every successful SrvHttp check-in the cached server options are
\* those of the response, whatever they were before: a request started while
\* they list zstd tries zstd again, and once a response has omitted zstd no
\* request is sent with zstd, also not by a submission that was running when
\* the check-in returned.
C35_ServerOptionsFollowCheckIn ==
    [][/\ (HttpCheckInReturns /\ lastFresh' # NoCheckin)
            => server_options' = lastFresh'.server_options
       /\ \A r \in Requests :
            /\ (reqs[r].pc = "idle" /\ reqs'[r].pc = "sending" /\ server_options.zstd)
                 => reqs'[r].algos = <<"zstd", "identity">>
            /\ LastCheckInOmitsZstd
                 => \A answer \in Answers : ~Answered(r, "zstd", answer)]_vars

\* ------------------------------------------------------- Collator::new
\* The identifiers the builder hands to Collator::new, each optional.
BuilderInputs ==
    [anonymous_distinct_id : {NoneId, "ba"}, distinct_id : {NoneId, "bd"},
     device_id : {NoneId, "bv"}]

\* The identifiers of the correlation data, each optional.
CorrelationInputs ==
    [anon_distinct_id : {NoneId, "ca"}, distinct_id : {NoneId, "cd"},
     device_id : {NoneId, "cv"}, session_id : {NoneId, "cs"}]

\* What Storage::load may return to Collator::new: an error, Ok(None), or
\* stored properties, whose distinct_id is optional.
LoadResults ==
    {[kind |-> "Err"], [kind |-> "ok", value |-> NoProps]}
    \cup {[kind |-> "ok",
           value |-> [anonymous_distinct_id |-> "sa", distinct_id |-> d,
                      device_id |-> "sv", groups |-> [k \in {} |-> "m"]]] :
          d \in {NoneId, "sd"}}

\* storage.load().await.ok().flatten()
stored_ident(loaded) == IF loaded.kind = "ok" THEN loaded.value ELSE NoProps

\* Option::or / Option::or_else
or_else(a, b) == IF a # NoneId THEN a ELSE b

\* Collator::new with the correlation data consulted before the storage.
Collator_new_correlation_first(builder, loaded, correlation_data) ==
    LET ident == stored_ident(loaded)
    IN  [session_id |-> or_else(correlation_data.session_id, "s0"),
         anon_distinct_id |->
            or_else(or_else(or_else(builder.anonymous_distinct_id,
                                    correlation_data.anon_distinct_id),
                            IF ident # NoProps THEN ident.anonymous_distinct_id ELSE NoneId),
                    FreshUuid(0)),
         distinct_id |->
            or_else(or_else(builder.distinct_id, correlation_data.distinct_id),
                    IF ident # NoProps THEN ident.distinct_id ELSE NoneId),
         device_id |->
            or_else(or_else(or_else(builder.device_id, correlation_data.device_id),
                            IF ident # NoProps THEN ident.device_id ELSE NoneId),
                    "DIDS-DEV-0"),
         facts |-> [k \in {} |-> "v"], featurefacts |-> DefaultFeatureFacts,
         groups |-> [k \in {} |-> "m"]]

\* Collator::new: the fields of the Collator it returns, given the builder's
\* identifiers, the result of storage.load() and the correlation data; here
\* the builder and the correlation data bring no facts and no groups.
Collator_new_from(builder, loaded, correlation_data) ==
    LET ident == stored_ident(loaded)
    IN  [session_id |-> or_else(correlation_data.session_id, "s0"),
         anon_distinct_id |->
            or_else(or_else(or_else(builder.anonymous_distinct_id,
                                    IF ident # NoProps THEN ident.anonymous_distinct_id ELSE NoneId),
                            correlation_data.anon_distinct_id),
                    FreshUuid(0)),
         distinct_id |->
            or_else(or_else(builder.distinct_id,
                            IF ident # NoProps THEN ident.distinct_id ELSE NoneId),
                    correlation_data.distinct_id),
         device_id |->
            or_else(or_else(or_else(builder.device_id,
                                    IF ident # NoProps THEN ident.device_id ELSE NoneId),
                            correlation_data.device_id),
                    "DIDS-DEV-0"),
         facts |-> [k \in {} |-> "v"], featurefacts |-> DefaultFeatureFacts,
         groups |-> [k \in {} |-> "m"]]

\* Collator::new runs, once, before Worker::new returns: it loads from the
\* storage and builds the Collator.
Construct(builder, loaded, correlation_data) ==
    /\ ~built
    /\ loadedProps = NotLoaded
    /\ loadedProps' = loaded
    /\ col' = Collator_new_from(builder, loaded, correlation_data)
    /\ UNCHANGED <<callerVars, collatorQ, collatorStatus, stored, nextUuid, proxyVars,
                   submitterVars, waitPc, inCall, storeFails, txn, ghostVars, httpVars,
                   jsonFile, storedProps>>

NextConstruct ==
    \E builder \in BuilderInputs, loaded \in LoadResults,
       correlation_data \in CorrelationInputs :
        Construct(builder, loaded, correlation_data)

SpecConstruct == Init /\ [][NextConstruct]_vars

\* The persisted value of a field: none when the load failed, when nothing
\* was stored, or when the stored properties leave the field unset.
PersistedValue(loaded, field) ==
    IF loaded.kind = "ok" /\ loaded.value # NoProps THEN loaded.value[field] ELSE NoneId

\* The first available of the builder's value, the persisted value and the
\* correlation seed, else the default.
FirstAvailable(b, s, c, default) ==
    IF b # NoneId THEN b ELSE IF s # NoneId THEN s ELSE IF c # NoneId THEN c ELSE default

\* C36: at construction the Collator picks anonymous_distinct_id, distinct_id
\* and device_id independently, each as the first available of the builder's
\* value, the persisted value, the correlation seed and a fresh default
\* (distinct_id stays unset when there is none); a storage load error counts
\* as no persisted value; session_id is the correlation seed's or a fresh
\* one, whatever the storage holds.
C36_ConstructionPriority ==
    [][\A b \in BuilderInputs, l \in LoadResults, c \in CorrelationInputs :
         Construct(b, l, c) =>
            /\ col'.anon_distinct_id =
                 FirstAvailable(b.anonymous_distinct_id,
                                PersistedValue(l, "anonymous_distinct_id"),
                                c.anon_distinct_id, FreshUuid(0))
            /\ col'.distinct_id =
                 FirstAvailable(b.distinct_id, PersistedValue(l, "distinct_id"),
                                c.distinct_id, NoneId)
            /\ col'.device_id =
                 FirstAvailable(b.device_id, PersistedValue(l, "device_id"),
                                c.device_id, "DIDS-DEV-0")
            /\ col'.session_id = (IF c.session_id # NoneId THEN c.session_id ELSE "s0")]_vars

\* The load failed, and the three identifiers came from three different
\* sources: the builder, the correlation data and the default.
C36_Witness ==
    /\ loadedProps = [kind |-> "Err"]
    /\ col.distinct_id = "bd"
    /\ col.anon_distinct_id = "ca"
    /\ col.device_id = "DIDS-DEV-0"
    /\ col.session_id = "cs"

\* The caller's wait_for_checkin holds the answer to its QueryIfCheckedIn.
StatusAnswer(c, status) == cpc[c] = "wfc_query" /\ creply[c] = ValReply(status)

\* C37: QueryIfCheckedIn is answered CheckedIn exactly when the cache is
\* populated; no step, and so no refresh, empties a populated cache; hence
\* wherever an answer CheckedIn has been given the cache is populated, and
\* every later query is answered CheckedIn.
C37_CheckedInIsStable ==
    /\ [][/\ (handle_message_query_if_checked_in /\ PxHead.tx # Dropped)
               => /\ creply'[PxHead.tx].kind = "val"
                  /\ (creply'[PxHead.tx].val = "CheckedIn") <=> (checkin # NoCheckin)
                  /\ (creply'[PxHead.tx].val = "NotYet") <=> (checkin = NoCheckin)
          /\ (checkin # NoCheckin) => (checkin' # NoCheckin)]_vars
    /\ [](\A c \in Callers :
            (StatusAnswer(c, "CheckedIn") \/ cres[c] = [op |-> "wait_for_checkin", val |-> "Ok"])
                => checkin # NoCheckin)

\* A query is answered CheckedIn although the last refresh failed.
C37_Witness ==
    /\ lastFresh = NoCheckin
    /\ \E c \in Callers : StatusAnswer(c, "CheckedIn")

\* C38: the anonymous id rotates only on change: an Identify(d) handled while
\* the current distinct_id already is d leaves the anonymous id as it is.
C38_RotatesOnlyOnChange ==
    [][(handle_message_identify /\ col.distinct_id = ColHead.new)
         => col'.anon_distinct_id = col.anon_distinct_id]_vars

\* The file at the storage location is removed or overwritten from outside
\* the program ("You can delete this file at any time").
FileReplaced(contents) ==
    /\ jsonFile # contents
    /\ jsonFile' = contents
    /\ UNCHANGED <<callerVars, collatorVars, proxyVars, submitterVars, waitPc, inCall,
                   storeFails, txn, ghostVars, httpVars, storedProps, loadedProps>>

\* JsonFile::store and JsonFile::load on a location whose file may be removed
\* or damaged between the calls.
NextFile ==
    \/ NextStorage
    \/ \E contents \in {NoFile, Unparsable} : FileReplaced(contents)

SpecFile == Init /\ [][NextFile]_vars

\* C40: a load on a location where no file exists returns Ok(None) and not an
\* error, while a load of a file that cannot be parsed returns an error.
C40_AbsentFileIsNone ==
    [][load => /\ jsonFile = NoFile => loadedProps' = [kind |-> "ok", value |-> NoProps]
               /\ jsonFile = Unparsable => loadedProps'.kind \notin {"ok", "none"}]_vars

\* ------------------------------------------------- the pipeline when full
\* Worker::new; the callers may start MaxPipelineOps operations.
InitPipeline ==
    /\ InitExceptOps
    /\ opsLeft = MaxPipelineOps
    /\ col = Collator_new(NoneId, NoneId, NoneId)

\* The Collator's handlers for the signals of record and the refresh.
PipelineCollatorStep ==
    \/ handle_message_get_session_properties
    \/ handle_message_update_feature_facts
    \/ handle_message_event

\* A step of a call under way or of one of the tasks that needs neither a new
\* call nor a timer.
Advance ==
    \/ \E c \in Callers : RefreshResume(c)
    \/ PipelineCollatorStep
    \/ ForwardCheckInNow
    \/ StartCheckIn
    \/ GotSessionProperties
    \/ CheckInReturns
    \/ SubmitterTop
    \/ SubmitterEvent

\* Recorder clones record events and refresh the configuration while the
\* refresh interval and the flush interval tick.
NextPipeline ==
    \/ \E c, d \in Callers : clone(c, d)
    \/ \E c \in Callers : record(c) \/ trigger_configuration_refresh(c)
    \/ RefreshTick
    \/ FlushTick
    \/ Advance

SpecPipeline == InitPipeline /\ [][NextPipeline]_vars

\* Something is under way: a caller is inside trigger_configuration_refresh,
\* or a running task has a signal to take or a job to finish.
Pending ==
    \/ \E c \in Callers : cpc[c] \in {"tcr_gsp", "tcr_props", "tcr_reply"}
    \/ collatorStatus = "running" /\ collatorQ # <<>>
    \/ proxyStatus = "running" /\ (proxyQ # <<>> \/ checkinQ # <<>> \/ cwPc # "idle")
    \/ subPc # "done" /\ (submitQ # <<>> \/ subPc = "top")

\* C39: the pipeline is deadlock-free under bounded channels: transport and
\* storage calls return, and in every reachable state in which something is
\* under way, full channels and a periodic refresh waiting for the Collator's
\* session properties included, a caller or a task can take a step without a
\* new call and without a timer: the Collator, the two workers of the
\* ConfigurationProxy, the Submitter and the callers are never all blocked.
C39_DeadlockFree == [](Pending => ENABLED Advance)

\* The periodic refresh waits for the Collator's session properties, the
\* Collator's channel is full with an event at its head, the Submitter's
\* channel is full, and a caller waits for room to send its
\* GetSessionProperties.
C39_Witness ==
    /\ cwPc = "wait_props"
    /\ Len(collatorQ) = ChanCap
    /\ ColHead.type = "Event"
    /\ Len(submitQ) = ChanCap
    /\ \E c \in Callers : cpc[c] = "tcr_gsp"

====
